---- MODULE Spec2Model ----
(***************************************************************************)
(* Model of the limit order book of rust_core (src/order_book.rs):         *)
(* OrderBook::new, OrderBook::add_order (matching and residual insert),    *)
(* OrderBook::cancel_order and the best-price queries.                     *)
(*                                                                         *)
(* Prices.  The program's prices are f64.  The model writes a price as an  *)
(* integer number of thousandths (290 is 0.29), so that prices between two *)
(* ticks of 0.01 exist.  A level key is a u64 number of ticks.  Three f64  *)
(* computations of the program appear in the model:                        *)
(*   (price * 100.0) as u64     PriceKey   (truncating, saturating cast)   *)
(*   key as f64 / 100.0         KeyPrice                                   *)
(*   price < key as f64 / 100.0 comparison of a price with KeyPrice(key)   *)
(* key as f64 / 100.0 is the double nearest to key/100, which is also the  *)
(* double a decimal literal with two places denotes, so comparing such     *)
(* doubles is comparing the integers.  The product price * 100.0 however   *)
(* is rounded once more, and for some whole-tick prices it falls just      *)
(* below the integer (0.29 * 100.0 = 28.999999999999996): TruncDown lists  *)
(* the ticks of the modelled range where the cast then yields one less.    *)
(*                                                                         *)
(* Quantities and ids are u32; the bounds keep every sum far below 2^32,   *)
(* so no u32 arithmetic of the program wraps or panics in the model.       *)
(***************************************************************************)
EXTENDS Integers, Sequences, FiniteSets, TLC

\* ------------------------------------------------------------- bounds ----
\* ids of the calls that meet add's preconditions: 1..MaxOrderId, each once
MaxOrderId == 3
\* ids of the calls that need not meet them
MaxAnyId == 2
\* number of such calls in one run
MaxCalls == 3
MaxQty == 2

OrderIds == 1..MaxOrderId
AnyIds == 1..MaxAnyId
Quantities == 0..MaxQty
\* the whole-tick prices 0.29 and 0.30, in thousandths, and the price 0
TickPrices == {290, 300}
Prices == TickPrices \cup {0}

\* ------------------------------------------------- f64 price encoding ----
\* ticks t with ((t / 100.0) * 100.0) < t in IEEE-754 doubles, among the ticks
\* 1..100 and 10000..10200 from which the model draws its prices
TruncDown == {29, 57, 58}

\* (price * 100.0) as u64
PriceKey(price) ==
    IF price <= 0 THEN 0
    ELSE IF price % 10 = 0 /\ (price \div 10) \in TruncDown
         THEN (price \div 10) - 1
         ELSE price \div 10

\* key as f64 / 100.0
KeyPrice(key) == key * 10

\* ---------------------------------------------------- map/vec helpers ----
Min(a, b) == IF a <= b THEN a ELSE b

\* (variant: the key stays in the map)
RemoveKeyKeeps(m, k) == m

RemoveKey(m, k) == [x \in DOMAIN m \ {k} |-> m[x]]

InsertKey(m, k, v) == [x \in DOMAIN m \cup {k} |-> IF x = k THEN v ELSE m[x]]

EmptyMap == [x \in {} |-> 0]

\* (variant: the ids after the one removed are dropped with it)
RetainBefore(s, id) ==
    IF \E i \in 1..Len(s) : s[i] = id
    THEN SubSeq(s, 1, (CHOOSE i \in 1..Len(s) : s[i] = id) - 1)
    ELSE s

Retain(s, id) == SelectSeq(s, LAMBDA x : x # id)

SeqToSet(s) == {s[i] : i \in 1..Len(s)}

RECURSIVE SeqSum(_)
SeqSum(s) == IF s = <<>> THEN 0 ELSE Head(s) + SeqSum(Tail(s))

\* (variant: the asks are scanned from the highest key)
RECURSIVE KeysAscendingReversed(_)
KeysAscendingReversed(S) ==
    IF S = {} THEN <<>>
    ELSE LET m == CHOOSE x \in S : \A y \in S : x >= y
         IN <<m>> \o KeysAscendingReversed(S \ {m})

\* iteration order of BTreeMap<u64, _> (asks): ascending keys
RECURSIVE KeysAscending(_)
KeysAscending(S) ==
    IF S = {} THEN <<>>
    ELSE LET m == CHOOSE x \in S : \A y \in S : x <= y
         IN <<m>> \o KeysAscending(S \ {m})

\* iteration order of BTreeMap<Reverse<u64>, _> (bids): descending keys
RECURSIVE KeysDescending(_)
KeysDescending(S) ==
    IF S = {} THEN <<>>
    ELSE LET m == CHOOSE x \in S : \A y \in S : x >= y
         IN <<m>> \o KeysDescending(S \ {m})

\* ---------------------------------------------------------------- state --
VARIABLES
    buy_levels,            \* bid tick -> aggregate quantity
    sell_levels,           \* ask tick -> aggregate quantity
    buy_orders_at_level,   \* bid tick -> sequence of order ids
    sell_orders_at_level,  \* ask tick -> sequence of order ids
    orders,                \* order id -> Order
    next_trade_id,
    lastOp,                \* the last call and its boolean result
    lastTrades,            \* the Vec<Trade> the last add_order returned
    emitted,               \* number of trades emitted since OrderBook::new
    next_order_id,         \* the caller's source of fresh order ids
    calls,                 \* number of calls made with arbitrary arguments
    ledger,                \* quantities submitted, cancelled and traded so far
    exchanges,             \* SmartOrderRouter: Vec<ExchangeInfo>
    consider_latency,      \* SmartOrderRouter
    consider_fees,         \* SmartOrderRouter
    lastRoute,             \* the last call made to the router and its result
    deactivated,           \* ids last set inactive by set_exchange_active
    splitCall,             \* route_order_split in progress: its locals
    mm,                    \* MarketMaker
    lastTick               \* the last call made to the market maker

\* the state of the router and of its caller
sorVars == <<exchanges, consider_latency, consider_fees, lastRoute, deactivated>>

\* the state of the order book and of its caller
bookVars == <<buy_levels, sell_levels, buy_orders_at_level,
              sell_orders_at_level, orders, next_trade_id, lastOp, lastTrades,
              emitted, next_order_id, calls, ledger>>

\* the locals of a route_order_split call that is followed step by step
loopVars == <<splitCall>>

\* the market maker and its caller
makerVars == <<mm, lastTick>>

\* what the order book and the router's one-step calls leave alone
auxVars == <<loopVars, makerVars>>

vars == <<bookVars, sorVars, auxVars>>

\* the OrderBook struct as one value
Book == [buy_levels |-> buy_levels, sell_levels |-> sell_levels,
         buy_orders_at_level |-> buy_orders_at_level,
         sell_orders_at_level |-> sell_orders_at_level,
         orders |-> orders, next_trade_id |-> next_trade_id]

Order(order_id, price, quantity, is_buy_side) ==
    [order_id |-> order_id, price |-> price, quantity |-> quantity,
     is_buy_side |-> is_buy_side]

\* (variant: the two ids change places)
TradeSwapped(trade_id, price, quantity, buy_order_id, sell_order_id) ==
    [trade_id |-> trade_id, price |-> price, quantity |-> quantity,
     buy_order_id |-> sell_order_id, sell_order_id |-> buy_order_id]

Trade(trade_id, price, quantity, buy_order_id, sell_order_id) ==
    [trade_id |-> trade_id, price |-> price, quantity |-> quantity,
     buy_order_id |-> buy_order_id, sell_order_id |-> sell_order_id]

\* ------------------------------------------------------------ add_order --
\* (variant: the prices are compared as whole units, cents dropped)
NoCrossWholeUnits(price, key, is_buy_side) ==
    IF is_buy_side THEN price \div 1000 < key \div 100
                   ELSE price \div 1000 > key \div 100

\* the price test that ends the scan of the opposite levels
NoCross(price, key, is_buy_side) ==
    IF is_buy_side THEN price < KeyPrice(key) ELSE price > KeyPrice(key)

\* the price a trade at level key carries
MatchPrice(key, passive_order) == KeyPrice(key)

\* (variant: the newest id of the level is visited first)
ScanOrderNewestFirst(order_ids) ==
    [i \in 1..Len(order_ids) |-> order_ids[Len(order_ids) + 1 - i]]

\* the order in which the ids of one level are visited
ScanOrder(order_ids) == order_ids

\* (variant: the counter is not advanced)
BumpTradeIdStuck(id) == id

\* the next trade id after one trade
BumpTradeId(id) == id + 1

\* inner loop: the ids of one level, in sequence order.
\* st = [orders, remaining, ntid, trades, to_remove]
RECURSIVE MatchIds(_, _, _, _, _, _)
MatchIds(order_ids, i, st, order_id, key, is_buy_side) ==
    IF i > Len(order_ids) \/ st.remaining = 0 THEN st
    ELSE LET pid == order_ids[i] IN
         IF pid \notin DOMAIN st.orders
         THEN MatchIds(order_ids, i + 1, st, order_id, key, is_buy_side)
         ELSE LET po == st.orders[pid]
                  tq == Min(st.remaining, po.quantity)
                  tr == Trade(st.ntid, MatchPrice(key, po), tq,
                              IF is_buy_side THEN order_id ELSE pid,
                              IF is_buy_side THEN pid ELSE order_id)
                  st2 == [orders    |-> [st.orders EXCEPT ![pid].quantity = @ - tq],
                          remaining |-> st.remaining - tq,
                          ntid      |-> BumpTradeId(st.ntid),
                          trades    |-> Append(st.trades, tr),
                          to_remove |-> IF po.quantity - tq = 0
                                        THEN Append(st.to_remove, pid)
                                        ELSE st.to_remove]
              IN MatchIds(order_ids, i + 1, st2, order_id, key, is_buy_side)

\* (variant: the ids that stay at the level are put back newest first)
CloseLevelRequeued(ms, key, order_ids, st) ==
    LET removed == SeqToSet(st.to_remove)
        kept(id) == id \notin removed
        level_quantity ==
            SeqSum([j \in 1..Len(order_ids) |->
                      IF kept(order_ids[j]) /\ order_ids[j] \in DOMAIN st.orders
                      THEN st.orders[order_ids[j]].quantity ELSE 0])
    IN [orders |-> [id \in {x \in DOMAIN st.orders : kept(x)} |-> st.orders[id]],
        lists |-> IF key \in DOMAIN ms.lists
                  THEN [ms.lists EXCEPT
                          ![key] = ScanOrderNewestFirst(SelectSeq(@, kept))]
                  ELSE ms.lists,
        remaining |-> st.remaining,
        ntid |-> st.ntid, trades |-> st.trades,
        updates |-> Append(ms.updates, <<key, level_quantity>>)]

\* "Remove filled orders" and "Calculate remaining level quantity" of one
\* level, given the state st the inner loop left.
\* ms = [orders, lists, remaining, ntid, trades, updates]
CloseLevel(ms, key, order_ids, st) ==
    LET removed == SeqToSet(st.to_remove)
        kept(id) == id \notin removed
        level_quantity ==
            SeqSum([j \in 1..Len(order_ids) |->
                      IF kept(order_ids[j]) /\ order_ids[j] \in DOMAIN st.orders
                      THEN st.orders[order_ids[j]].quantity ELSE 0])
    IN [orders |-> [id \in {x \in DOMAIN st.orders : kept(x)} |-> st.orders[id]],
        lists |-> IF key \in DOMAIN ms.lists
                  THEN [ms.lists EXCEPT ![key] = SelectSeq(@, kept)]
                  ELSE ms.lists,
        remaining |-> st.remaining,
        ntid |-> st.ntid, trades |-> st.trades,
        updates |-> Append(ms.updates, <<key, level_quantity>>)]

\* the id sequence of a level, cloned (empty when the level has none)
OrderIdsAt(lists, key) == IF key \in DOMAIN lists THEN lists[key] ELSE <<>>

\* one iteration of the level loop, after its break test
MatchLevel(ms, key, order_id, is_buy_side) ==
    CloseLevel(ms, key, OrderIdsAt(ms.lists, key),
               MatchIds(ScanOrder(OrderIdsAt(ms.lists, key)), 1,
                        [orders |-> ms.orders, remaining |-> ms.remaining,
                         ntid |-> ms.ntid, trades |-> ms.trades,
                         to_remove |-> <<>>],
                        order_id, key, is_buy_side))

\* outer loop over the snapshot of the opposite level keys
RECURSIVE MatchLevels(_, _, _, _, _, _)
MatchLevels(keys, i, ms, order_id, price, is_buy_side) ==
    IF i > Len(keys) THEN ms
    ELSE IF ms.remaining = 0 \/ NoCross(price, keys[i], is_buy_side) THEN ms
    ELSE MatchLevels(keys, i + 1, MatchLevel(ms, keys[i], order_id, is_buy_side),
                     order_id, price, is_buy_side)

\* "Update levels after iteration": lv = [levels, lists]
RECURSIVE ApplyUpdates(_, _)
ApplyUpdates(updates, lv) ==
    IF updates = <<>> THEN lv
    ELSE LET key == Head(updates)[1]
             quantity == Head(updates)[2]
         IN ApplyUpdates(Tail(updates),
              IF quantity = 0
              THEN [levels |-> RemoveKey(lv.levels, key),
                    lists  |-> RemoveKey(lv.lists, key)]
              ELSE [levels |-> InsertKey(lv.levels, key, quantity),
                    lists  |-> lv.lists])

\* the book after the matching phase, given the matched side's maps lv
\* and the state ms the level loop left
AfterMatching(b, is_buy_side, ms, lv) ==
    [book |-> [buy_levels  |-> IF is_buy_side THEN b.buy_levels ELSE lv.levels,
               sell_levels |-> IF is_buy_side THEN lv.levels ELSE b.sell_levels,
               buy_orders_at_level  |-> IF is_buy_side THEN b.buy_orders_at_level
                                                       ELSE lv.lists,
               sell_orders_at_level |-> IF is_buy_side THEN lv.lists
                                                       ELSE b.sell_orders_at_level,
               orders |-> ms.orders,
               next_trade_id |-> ms.ntid],
     trades |-> ms.trades,
     remaining |-> ms.remaining]

\* the level updates applied to the matched side
UpdateLevels(b, is_buy_side, levels, ms) ==
    AfterMatching(b, is_buy_side, ms,
                  ApplyUpdates(ms.updates, [levels |-> levels, lists |-> ms.lists]))

\* the level loop over the opposite side's maps
MatchSide(b, order_id, price, quantity, is_buy_side, levels, lists) ==
    UpdateLevels(b, is_buy_side, levels,
        MatchLevels(IF is_buy_side THEN KeysAscending(DOMAIN levels)
                                   ELSE KeysDescending(DOMAIN levels),
                    1,
                    [orders |-> b.orders, lists |-> lists, remaining |-> quantity,
                     ntid |-> b.next_trade_id, trades |-> <<>>, updates |-> <<>>],
                    order_id, price, is_buy_side))

\* matching phase of add_order: the book after it, the trades, the remainder
Matching(b, order_id, price, quantity, is_buy_side) ==
    MatchSide(b, order_id, price, quantity, is_buy_side,
              IF is_buy_side THEN b.sell_levels ELSE b.buy_levels,
              IF is_buy_side THEN b.sell_orders_at_level
                             ELSE b.buy_orders_at_level)

\* (variant: an order without remainder is inserted too)
HasResidualAlways(remaining_quantity) == remaining_quantity >= 0

\* the test that guards the residual insert
HasResidual(remaining_quantity) == remaining_quantity > 0

\* (variant: the order rests with the quantity it came with)
RestingQuantityWhole(quantity, remaining_quantity) == quantity

\* the quantity with which the incoming order rests
RestingQuantity(quantity, remaining_quantity) == remaining_quantity

\* "Add remaining quantity to book if not fully matched"
InsertResidual(b, order_id, price, quantity, remaining_quantity, is_buy_side) ==
    IF HasResidual(remaining_quantity)
    THEN LET price_key == PriceKey(price)
             rest == RestingQuantity(quantity, remaining_quantity)
             bump(levels) == InsertKey(levels, price_key,
                                (IF price_key \in DOMAIN levels
                                 THEN levels[price_key] ELSE 0) + rest)
             push(lists) == InsertKey(lists, price_key,
                                Append(IF price_key \in DOMAIN lists
                                       THEN lists[price_key] ELSE <<>>, order_id))
         IN [b EXCEPT
               !.buy_levels  = IF is_buy_side THEN bump(@) ELSE @,
               !.sell_levels = IF is_buy_side THEN @ ELSE bump(@),
               !.buy_orders_at_level  = IF is_buy_side THEN push(@) ELSE @,
               !.sell_orders_at_level = IF is_buy_side THEN @ ELSE push(@),
               !.orders = InsertKey(@, order_id,
                            Order(order_id, price, rest, is_buy_side))]
    ELSE b

\* the residual insert after the matching phase m, and the returned trades
AddResult(m, order_id, price, quantity, is_buy_side) ==
    [book |-> InsertResidual(m.book, order_id, price, quantity, m.remaining,
                             is_buy_side),
     trades |-> m.trades]

\* OrderBook::add_order: the book after the call and the returned trades
add_order(b, order_id, price, quantity, is_buy_side) ==
    AddResult(Matching(b, order_id, price, quantity, is_buy_side),
              order_id, price, quantity, is_buy_side)

\* --------------------------------------------------------- cancel_order --
\* u32::saturating_sub
SaturatingSub(a, b) == IF a >= b THEN a - b ELSE 0

\* (variant: the level aggregate is left as it was)
CancelledQuantityNone(order) == 0

\* the quantity cancel_order takes off the level
CancelledQuantity(order) == order.quantity

\* OrderBook::cancel_order: the book after the call and the returned bool
cancel_order(b, order_id) ==
    IF order_id \in DOMAIN b.orders
    THEN LET order == b.orders[order_id]
             price_key == PriceKey(order.price)
             dec(levels) ==
                 IF price_key \in DOMAIN levels
                 THEN LET level == SaturatingSub(levels[price_key],
                                                 CancelledQuantity(order))
                      IN IF level = 0 THEN RemoveKey(levels, price_key)
                         ELSE [levels EXCEPT ![price_key] = level]
                 ELSE levels
             drop(lists) ==
                 IF price_key \in DOMAIN lists
                 THEN LET order_list == Retain(lists[price_key], order_id)
                      IN IF order_list = <<>> THEN RemoveKey(lists, price_key)
                         ELSE [lists EXCEPT ![price_key] = order_list]
                 ELSE lists
         IN [book |-> [b EXCEPT
                         !.orders = RemoveKey(@, order_id),
                         !.buy_levels  = IF order.is_buy_side THEN dec(@) ELSE @,
                         !.sell_levels = IF order.is_buy_side THEN @ ELSE dec(@),
                         !.buy_orders_at_level  =
                             IF order.is_buy_side THEN drop(@) ELSE @,
                         !.sell_orders_at_level =
                             IF order.is_buy_side THEN @ ELSE drop(@)],
             ret |-> TRUE]
    ELSE [book |-> b, ret |-> FALSE]

\* -------------------------------------------------------------- queries --
HasBid == DOMAIN buy_levels # {}
HasAsk == DOMAIN sell_levels # {}

\* get_best_bid / get_best_ask, as prices (defined when the side has a level)
get_best_bid == KeyPrice(CHOOSE k \in DOMAIN buy_levels :
                            \A j \in DOMAIN buy_levels : k >= j)
get_best_ask == KeyPrice(CHOOSE k \in DOMAIN sell_levels :
                            \A j \in DOMAIN sell_levels : k <= j)

\* ---------------------------------------------------- SmartOrderRouter --
\* Numbers of the router.  Prices are thousandths as above.  A fee rate is a
\* number of thousandths (1 is 0.001) and a latency a number of hundreds of
\* milliseconds (1 is 100 ms), so that 1.0 + latency_ms / 10000.0 is
\* (LatencyUnit + latency) / LatencyUnit.  A cost is an integer: the exact
\* product times FeeUnit * LatencyUnit.  The f64 products of route_order are
\* compared by these exact values: scores computed from the same operands
\* are the same double, and the modelled values are far enough apart for the
\* order of different doubles to be that of the exact products.
Unknown == "Unknown"

\* 1.0 as a fee rate
FeeUnit == 1000

\* 10000.0 ms as a latency
LatencyUnit == 100

\* OrderBook::new as a value
NewBook == [buy_levels |-> EmptyMap, sell_levels |-> EmptyMap,
            buy_orders_at_level |-> EmptyMap, sell_orders_at_level |-> EmptyMap,
            orders |-> EmptyMap, next_trade_id |-> 1]

\* the book after the add_order calls os, made in sequence on the book b
RECURSIVE BookOf(_, _)
BookOf(os, b) ==
    IF os = <<>> THEN b
    ELSE BookOf(Tail(os),
                add_order(b, Head(os).order_id, Head(os).price,
                          Head(os).quantity, Head(os).is_buy_side).book)

FeeSchedule(maker, taker) == [maker_fee |-> maker, taker_fee |-> taker]

\* RoutingDecision::default
DefaultDecision ==
    [exchange_id |-> Unknown, expected_price |-> 0, expected_fee |-> 0,
     total_cost |-> 0, available_quantity |-> 0, is_maker |-> FALSE]

\* OrderBook::get_best_bid / get_best_ask of the book b, as Option: the
\* side has a level, and then the price of its first key
HasBidIn(b) == DOMAIN b.buy_levels # {}
HasAskIn(b) == DOMAIN b.sell_levels # {}

BestBidOf(b) == KeyPrice(CHOOSE k \in DOMAIN b.buy_levels :
                            \A j \in DOMAIN b.buy_levels : k >= j)
BestAskOf(b) == KeyPrice(CHOOSE k \in DOMAIN b.sell_levels :
                            \A j \in DOMAIN b.sell_levels : k <= j)

\* OrderBook::get_bid_quantity_at / get_ask_quantity_at
get_bid_quantity_at(b, price) ==
    IF PriceKey(price) \in DOMAIN b.buy_levels
    THEN b.buy_levels[PriceKey(price)] ELSE 0

get_ask_quantity_at(b, price) ==
    IF PriceKey(price) \in DOMAIN b.sell_levels
    THEN b.sell_levels[PriceKey(price)] ELSE 0

\* notional + fee, and notional - fee
calculate_buy_cost(price, quantity, fee_rate) ==
    price * quantity * FeeUnit + price * quantity * fee_rate

calculate_sell_proceeds(price, quantity, fee_rate) ==
    price * quantity * FeeUnit - price * quantity * fee_rate

would_be_maker_order(book, price, is_buy) ==
    IF is_buy
    THEN IF HasAskIn(book) THEN price < BestAskOf(book) ELSE TRUE
    ELSE IF HasBidIn(book) THEN price > BestBidOf(book) ELSE TRUE

\* ---- route_order ----
\* the top of the opposite side of book: best ask for a buy, best bid for a
\* sell, and the quantity the book reports at that price
HasTop(book, is_buy_side) ==
    IF is_buy_side THEN HasAskIn(book) ELSE HasBidIn(book)

TopPrice(book, is_buy_side) ==
    IF is_buy_side THEN BestAskOf(book) ELSE BestBidOf(book)

AvailableQty(book, top, is_buy_side) ==
    IF is_buy_side THEN get_ask_quantity_at(book, top)
                   ELSE get_bid_quantity_at(book, top)

FeeRate(fees, is_maker) == IF is_maker THEN fees.maker_fee ELSE fees.taker_fee

\* "Calculate total cost" / "Calculate net proceeds", before the latency
\* penalty
BaseCost(top, fill_qty, fee_rate, is_buy_side, cf) ==
    IF cf
    THEN IF is_buy_side THEN calculate_buy_cost(top, fill_qty, fee_rate)
                        ELSE calculate_sell_proceeds(top, fill_qty, fee_rate)
    ELSE top * fill_qty * FeeUnit

\* "Consider latency if enabled": 1.0 +/- latency_ms / 10000.0
LatencyFactor(latency, is_buy_side, cl) ==
    IF cl
    THEN IF is_buy_side THEN LatencyUnit + latency ELSE LatencyUnit - latency
    ELSE LatencyUnit

\* the RoutingDecision built for one exchange
Decision(exchange_info, top, available_qty, is_maker, fill_qty, is_buy_side, cl, cf) ==
    [exchange_id |-> exchange_info.exchange.id,
     expected_price |-> top,
     expected_fee |-> IF cf
                      THEN top * fill_qty * FeeRate(exchange_info.fees, is_maker)
                      ELSE 0,
     total_cost |-> BaseCost(top, fill_qty,
                             FeeRate(exchange_info.fees, is_maker),
                             is_buy_side, cf)
                    * LatencyFactor(exchange_info.exchange.latency,
                                    is_buy_side, cl),
     available_quantity |-> available_qty,
     is_maker |-> is_maker]

\* total_cost < best_cost / net_proceeds > best_proceeds; best_cost starts
\* at f64::MAX and best_proceeds at f64::MIN, which every score beats
Beats(d, best, is_buy_side) ==
    \/ ~ best.found
    \/ IF is_buy_side THEN d.total_cost < best.decision.total_cost
                      ELSE d.total_cost > best.decision.total_cost

Better(d, best, is_buy_side) ==
    IF Beats(d, best, is_buy_side) THEN [found |-> TRUE, decision |-> d]
    ELSE best

\* the first test of the loop body
Skipped(exchange_info) ==
    ~ exchange_info.is_active \/ ~ exchange_info.exchange.is_available

\* the loop body from "Check available quantity" on
ConsiderQty(exchange_info, best, top, available_qty, price, quantity, is_buy_side, cl, cf) ==
    IF available_qty = 0 THEN best
    ELSE Better(Decision(exchange_info, top, available_qty,
                         would_be_maker_order(exchange_info.exchange.order_book,
                                              price, is_buy_side),
                         Min(quantity, available_qty), is_buy_side, cl, cf),
                best, is_buy_side)

\* one pass of the loop over the exchanges
Consider(exchange_info, best, price, quantity, is_buy_side, cl, cf) ==
    IF Skipped(exchange_info) THEN best
    ELSE IF ~ HasTop(exchange_info.exchange.order_book, is_buy_side) THEN best
    ELSE ConsiderQty(exchange_info, best,
                     TopPrice(exchange_info.exchange.order_book, is_buy_side),
                     AvailableQty(exchange_info.exchange.order_book,
                                  TopPrice(exchange_info.exchange.order_book,
                                           is_buy_side),
                                  is_buy_side),
                     price, quantity, is_buy_side, cl, cf)

RECURSIVE RouteLoop(_, _, _, _, _, _, _, _)
RouteLoop(exs, i, best, price, quantity, is_buy_side, cl, cf) ==
    IF i > Len(exs) THEN best.decision
    ELSE RouteLoop(exs, i + 1,
                   Consider(exs[i], best, price, quantity, is_buy_side, cl, cf),
                   price, quantity, is_buy_side, cl, cf)

\* SmartOrderRouter::route_order (its _order_id is not used)
route_order(exs, price, quantity, is_buy_side, cl, cf) ==
    RouteLoop(exs, 1, [found |-> FALSE, decision |-> DefaultDecision],
              price, quantity, is_buy_side, cl, cf)

\* ---- get_aggregated_market_data ----
\* stand-ins for f64::MIN and f64::MAX: below and above every modelled price
F64Min == -1
F64Max == 1000000000

NoData ==
    [best_bid |-> F64Min, best_ask |-> F64Max,
     total_bid_quantity |-> 0, total_ask_quantity |-> 0,
     best_bid_exchange |-> Unknown, best_ask_exchange |-> Unknown]

\* "Check best bid" for a book that has one
AddBid(data, id, book, bid) ==
    [data EXCEPT
       !.best_bid = IF bid > data.best_bid THEN bid ELSE @,
       !.best_bid_exchange = IF bid > data.best_bid THEN id ELSE @,
       !.total_bid_quantity = @ + get_bid_quantity_at(book, bid)]

\* "Check best ask" for a book that has one
AddAsk(data, id, book, ask) ==
    [data EXCEPT
       !.best_ask = IF ask < data.best_ask THEN ask ELSE @,
       !.best_ask_exchange = IF ask < data.best_ask THEN id ELSE @,
       !.total_ask_quantity = @ + get_ask_quantity_at(book, ask)]

AddAskOf(data, id, book) ==
    IF HasAskIn(book) THEN AddAsk(data, id, book, BestAskOf(book)) ELSE data

AddBidOf(data, id, book) ==
    IF HasBidIn(book) THEN AddBid(data, id, book, BestBidOf(book)) ELSE data

\* one pass of the loop over the exchanges
Aggregate(data, exchange_info) ==
    IF Skipped(exchange_info) THEN data
    ELSE AddAskOf(AddBidOf(data, exchange_info.exchange.id,
                           exchange_info.exchange.order_book),
                  exchange_info.exchange.id, exchange_info.exchange.order_book)

RECURSIVE AggregateLoop(_, _, _)
AggregateLoop(exs, i, data) ==
    IF i > Len(exs) THEN data
    ELSE AggregateLoop(exs, i + 1, Aggregate(data, exs[i]))

\* SmartOrderRouter::get_aggregated_market_data
get_aggregated_market_data(exs) == AggregateLoop(exs, 1, NoData)

\* ---- route_order_split ----
\* a SplitOrder; its expected_fee is the quotient
\* decision.expected_fee * fill_quantity / decision.available_quantity,
\* kept as <<numerator, denominator>>
SplitOrder(decision, fill_quantity) ==
    [exchange_id |-> decision.exchange_id,
     quantity |-> fill_quantity,
     expected_price |-> decision.expected_price,
     expected_fee |-> <<decision.expected_fee * fill_quantity,
                        decision.available_quantity>>]

RECURSIVE SplitLoop(_, _, _, _, _, _, _)

\* "Prevent infinite loop", after the split was pushed and the quantity
\* taken off
SplitNext(exs, total_quantity, splits, price, is_buy_side, cl, cf) ==
    IF Len(splits) >= Len(exs) THEN splits
    ELSE SplitLoop(exs, total_quantity, splits, price, is_buy_side, cl, cf)

\* the loop body once the decision is made
SplitStep(exs, total_quantity, splits, decision, price, is_buy_side, cl, cf) ==
    IF decision.exchange_id = Unknown THEN splits
    ELSE SplitNext(exs,
                   total_quantity - Min(total_quantity, decision.available_quantity),
                   Append(splits,
                          SplitOrder(decision,
                                     Min(total_quantity,
                                         decision.available_quantity))),
                   price, is_buy_side, cl, cf)

\* while total_quantity > 0
SplitLoop(exs, total_quantity, splits, price, is_buy_side, cl, cf) ==
    IF total_quantity = 0 THEN splits
    ELSE SplitStep(exs, total_quantity, splits,
                   route_order(exs, price, total_quantity, is_buy_side, cl, cf),
                   price, is_buy_side, cl, cf)

\* SmartOrderRouter::route_order_split
route_order_split(exs, price, total_quantity, is_buy_side, cl, cf) ==
    SplitLoop(exs, total_quantity, <<>>, price, is_buy_side, cl, cf)

\* ---- membership ----
\* the ExchangeInfo add_exchange pushes
ExchangeInfo(exchange, fees) ==
    [exchange |-> exchange, fees |-> fees, is_active |-> TRUE]

\* SmartOrderRouter::add_exchange
add_exchange(exs, exchange, fees) == Append(exs, ExchangeInfo(exchange, fees))

\* the position of the first exchange with the id (0: there is none)
FirstWithId(exs, id) ==
    IF \E i \in 1..Len(exs) : exs[i].exchange.id = id
    THEN CHOOSE i \in 1..Len(exs) :
            /\ exs[i].exchange.id = id
            /\ \A j \in 1..(i - 1) : exs[j].exchange.id # id
    ELSE 0

\* SmartOrderRouter::set_exchange_active: the loop ends at the first match
set_exchange_active(exs, id, active) ==
    IF FirstWithId(exs, id) = 0 THEN exs
    ELSE [exs EXCEPT ![FirstWithId(exs, id)].is_active = active]

\* --------------------------------------------------------- MarketMaker --
\* The f64 fields of the market maker are kept as integers in fixed units:
\*   base quantities (inventories, quote sizes): hundredths of the base, the
\*     unit of fill_quantity (BaseUnit per whole base);
\*   base_quote_size: quarters of a hundredth (SizeUnit per hundredth), so
\*     that it can be halved;
\*   prices of the books and of fills: thousandths, as in the order book;
\*   midpoints: half thousandths (MidUnit per thousandth), the sum bid + ask;
\*   quote inventory: fill price times fill quantity, 1 / 100000;
\*   realized_pnl: base quantity times midpoint, 1 / 200000;
\*   spreads in basis points: sixteenths of a basis point (BpsUnit per bp);
\*   inventory skew: halves (SkewUnit per 1.0); inventory_skew_factor and
\*     volatility_adjustment are whole numbers, volatility_estimate is in
\*     thousandths (VolUnit per 1.0);
\*   price adjustments (1 -/+ half_spread -/+ skew * half_spread): 1 / AdjUnit;
\*   quote prices: midpoint times adjustment, 1 / (2000 * AdjUnit).
\* The modelled parameters and inventories are such that every division
\* below is exact, except the cast of a quote size to u32, which truncates.
\* The doubles the code computes differ from these exact values by rounding
\* only; for the modelled inputs no comparison of the code is decided by it
\* (the quote prices are never within rounding of a price of a level of the
\* modelled books, the inventories never within rounding of a limit).
BaseUnit == 100
SizeUnit == 4
MidUnit == 2
BpsUnit == 16
SkewUnit == 2
VolUnit == 1000
AdjUnit == BpsUnit * 10000 * 2 * SkewUnit

Abs(x) == IF x < 0 THEN 0 - x ELSE x
Max(a, b) == IF a > b THEN a ELSE b

\* MarketMaker::new
NewMaker(params) ==
    [params |-> params,
     base_inventory |-> 0, quote_inventory |-> 0,
     initial_base_inventory |-> 0, initial_quote_inventory |-> 0,
     last_midpoint |-> 0, volatility_estimate |-> 1,
     quotes_placed |-> 0, quotes_filled |-> 0,
     total_volume |-> 0, realized_pnl |-> 0]

\* MarketMaker::initialize
initialize(m, base_inventory, quote_inventory) ==
    [m EXCEPT !.base_inventory = base_inventory,
              !.quote_inventory = quote_inventory,
              !.initial_base_inventory = base_inventory,
              !.initial_quote_inventory = quote_inventory]

\* the test of calculate_midpoint: "No valid market"
NoValidMarket(market_data) ==
    market_data.best_bid <= 0 \/ market_data.best_ask >= F64Max

\* (variant: without a valid market there is no midpoint)
calculate_midpoint_forgets(m, market_data) ==
    IF NoValidMarket(market_data)
    THEN [midpoint |-> 0, mm |-> m]
    ELSE [midpoint |-> market_data.best_bid + market_data.best_ask,
          mm |-> [m EXCEPT !.last_midpoint =
                              market_data.best_bid + market_data.best_ask]]

\* MarketMaker::calculate_midpoint on the market data the router returned:
\* the midpoint, and the market maker with last_midpoint as the call left it
calculate_midpoint(m, market_data) ==
    IF NoValidMarket(market_data)
    THEN [midpoint |-> m.last_midpoint, mm |-> m]
    ELSE [midpoint |-> market_data.best_bid + market_data.best_ask,
          mm |-> [m EXCEPT !.last_midpoint =
                              market_data.best_bid + market_data.best_ask]]

\* (variant: the skew does not depend on the inventory)
calculate_inventory_skew_none(m) == 0

\* MarketMaker::calculate_inventory_skew, in halves
calculate_inventory_skew(m) ==
    IF m.params.target_base_inventory <= 0 THEN 0
    ELSE ((m.base_inventory - m.params.target_base_inventory)
             * m.params.inventory_skew_factor * SkewUnit)
         \div m.params.target_base_inventory

\* spread_bps before "Enforce limits"
RawSpread(m) ==
    (m.params.base_spread_bps
        * (VolUnit + m.volatility_estimate * m.params.volatility_adjustment)
        * (2 * SkewUnit + Abs(calculate_inventory_skew(m))))
    \div (VolUnit * 2 * SkewUnit)

\* (variant: the limits are not enforced)
calculate_spread_unbounded(m) == RawSpread(m)

\* MarketMaker::calculate_spread, in sixteenths of a basis point (the
\* division by 10000.0 is part of AdjUnit)
calculate_spread(m) ==
    Min(Max(RawSpread(m), m.params.min_spread_bps), m.params.max_spread_bps)

\* bid_adjustment and ask_adjustment, in 1 / AdjUnit
BidAdjustment(m, spread) ==
    AdjUnit - spread * SkewUnit - calculate_inventory_skew(m) * spread

AskAdjustment(m, spread) ==
    AdjUnit + spread * SkewUnit + calculate_inventory_skew(m) * spread

\* MarketMaker::calculate_quote_prices: (bid_price, ask_price)
calculate_quote_prices(m, midpoint, spread) ==
    <<midpoint * BidAdjustment(m, spread), midpoint * AskAdjustment(m, spread)>>

\* (n / d) as u32 for d > 0: truncated, and 0 for a negative value
AsU32(n, d) == IF n <= 0 THEN 0 ELSE n \div d

\* base_size * 100.0 of a buy quote, as the quotient of two integers:
\* base_quote_size * (1 - base_inventory / max_base_inventory * 0.5)
BuySize(m) ==
    AsU32(m.params.base_quote_size
             * (2 * m.params.max_base_inventory - m.base_inventory),
          SizeUnit * 2 * m.params.max_base_inventory)

\* base_size * 100.0 of a sell quote:
\* base_quote_size * min(base_inventory / target_base_inventory, 1.0).
\* With target_base_inventory = 0.0 the ratio is +inf, NaN or -inf: min
\* gives 1.0 for the first two, and the cast of -inf gives 0.
SellSize(m) ==
    IF m.params.target_base_inventory = 0
    THEN IF m.base_inventory >= 0 THEN AsU32(m.params.base_quote_size, SizeUnit)
                                  ELSE 0
    ELSE AsU32(m.params.base_quote_size
                  * Min(m.base_inventory, m.params.target_base_inventory),
               SizeUnit * m.params.target_base_inventory)

\* MarketMaker::calculate_quote_size
calculate_quote_size(m, is_buy_side) ==
    Min(Max(IF is_buy_side THEN BuySize(m) ELSE SellSize(m),
            m.params.min_quote_size),
        m.params.max_quote_size)

\* a quote price as route_order uses it.  route_order only compares the
\* price with prices of levels, which are whole thousandths: "<" for a buy,
\* which the price rounded down decides, and ">" for a sell, which the
\* price rounded up decides.
RoutePrice(quote_price, is_buy_side) ==
    IF is_buy_side THEN quote_price \div (MidUnit * AdjUnit)
    ELSE 0 - ((0 - quote_price) \div (MidUnit * AdjUnit))

\* Quote::new
Quote(price, quantity, is_buy_side, target_exchange) ==
    [price |-> price, quantity |-> quantity, is_buy_side |-> is_buy_side,
     target_exchange |-> target_exchange]

\* what update_quotes returns: None, or Some(MarketMakerQuotes);
\* theoretical_edge is kept as its three terms, which have different units:
\* ask_price - bid_price, and the two expected fees
NoQuotes == [some |-> FALSE]

SomeQuotes(bid_price, ask_price, buy_size, sell_size, buy_routing, sell_routing) ==
    [some |-> TRUE,
     buy_quote |-> Quote(bid_price, buy_size, TRUE, buy_routing.exchange_id),
     sell_quote |-> Quote(ask_price, sell_size, FALSE, sell_routing.exchange_id),
     theoretical_edge |-> <<ask_price - bid_price, buy_routing.expected_fee,
                            sell_routing.expected_fee>>]

\* update_quotes from "Determine best exchanges for each quote" on
PlaceQuotes(m, exs, cl, cf, prices, buy_size, sell_size) ==
    [mm |-> [m EXCEPT !.quotes_placed = @ + 2],
     ret |-> SomeQuotes(prices[1], prices[2], buy_size, sell_size,
                        route_order(exs, RoutePrice(prices[1], TRUE),
                                    buy_size, TRUE, cl, cf),
                        route_order(exs, RoutePrice(prices[2], FALSE),
                                    sell_size, FALSE, cl, cf))]

\* update_quotes after calculate_midpoint returned
QuotesAt(m, midpoint, exs, cl, cf) ==
    IF midpoint <= 0 THEN [mm |-> m, ret |-> NoQuotes]
    ELSE PlaceQuotes(m, exs, cl, cf,
                     calculate_quote_prices(m, midpoint, calculate_spread(m)),
                     calculate_quote_size(m, TRUE),
                     calculate_quote_size(m, FALSE))

\* the midpoint handed on with the market maker it was computed for
WithMidpoint(r, exs, cl, cf) == QuotesAt(r.mm, r.midpoint, exs, cl, cf)

\* MarketMaker::update_quotes: the market maker afterwards and the value
\* returned
update_quotes(m, exs, cl, cf) ==
    WithMidpoint(calculate_midpoint(m, get_aggregated_market_data(exs)),
                 exs, cl, cf)

\* (variant: a sale is booked as a purchase)
FilledOneWay(m, is_buy_side, fill_price, fill_quantity) ==
    [m EXCEPT !.base_inventory = @ + fill_quantity,
              !.quote_inventory = @ - fill_price * fill_quantity]

\* the inventories after a fill
Filled(m, is_buy_side, fill_price, fill_quantity) ==
    IF is_buy_side
    THEN [m EXCEPT !.base_inventory = @ + fill_quantity,
                   !.quote_inventory = @ - fill_price * fill_quantity]
    ELSE [m EXCEPT !.base_inventory = @ - fill_quantity,
                   !.quote_inventory = @ + fill_price * fill_quantity]

\* "Update realized PnL"
Realized(m) ==
    [m EXCEPT !.realized_pnl =
        (m.base_inventory * m.last_midpoint + 2 * m.quote_inventory)
        - (m.initial_base_inventory * m.last_midpoint
           + 2 * m.initial_quote_inventory)]

\* MarketMaker::on_quote_filled
on_quote_filled(m, filled_quote, fill_price, fill_quantity) ==
    Realized(Filled([m EXCEPT !.quotes_filled = @ + 1,
                              !.total_volume = @ + fill_quantity],
                    filled_quote.is_buy_side, fill_price, fill_quantity))

\* (variant: the check of the base inventory is left out)
BaseOutsideNever(m) == FALSE

\* "Check inventory limits", base
BaseOutside(m) ==
    \/ m.base_inventory > m.params.max_base_inventory
    \/ m.base_inventory < 0

\* "Check inventory limits", quote: "Allow small negative"
QuoteOutside(m) ==
    \/ m.quote_inventory > m.params.max_quote_inventory
    \/ 10 * m.quote_inventory < 0 - m.params.max_quote_inventory

\* "Check position limits": 10% buffer
PositionWithin(m) ==
    10 * Abs(m.base_inventory * m.last_midpoint)
        <= 11 * m.params.max_base_inventory * m.last_midpoint

\* MarketMaker::is_within_risk_limits
is_within_risk_limits(m) ==
    IF BaseOutside(m) THEN FALSE
    ELSE IF QuoteOutside(m) THEN FALSE
    ELSE PositionWithin(m)

\* (variant: the parameters are adjusted whatever the risk predicate says)
WidenAlways(m) ==
    [m EXCEPT !.params.base_spread_bps = (@ * 3) \div 2,
              !.params.base_quote_size = @ \div 2]

\* MarketMaker::adjust_parameters_for_risk
adjust_parameters_for_risk(m) ==
    IF ~ is_within_risk_limits(m)
    THEN [m EXCEPT !.params.base_spread_bps = (@ * 3) \div 2,
                   !.params.base_quote_size = @ \div 2]
    ELSE m

\* -------------------------------------------------------------- actions --
NoOp == [kind |-> "new", order_id |-> 0, price |-> 0, quantity |-> 0,
         is_buy_side |-> FALSE, ret |-> FALSE]

\* nothing submitted yet: per side (TRUE is buy) the quantity handed to
\* add_order and the quantity of the orders cancel_order removed, and the
\* quantity of the trades returned
NoLedger == [submitted |-> [s \in BOOLEAN |-> 0],
             cancelled |-> [s \in BOOLEAN |-> 0], traded |-> 0]

\* OrderBook::new, and a caller that has made no call
InitBook ==
    /\ buy_levels = EmptyMap
    /\ sell_levels = EmptyMap
    /\ buy_orders_at_level = EmptyMap
    /\ sell_orders_at_level = EmptyMap
    /\ orders = EmptyMap
    /\ next_trade_id = 1
    /\ lastOp = NoOp
    /\ lastTrades = <<>>
    /\ emitted = 0
    /\ next_order_id = 1
    /\ calls = 0
    /\ ledger = NoLedger

\* no call made to the router yet
NoRoute == [kind |-> "new", id |-> Unknown, active |-> FALSE,
            price |-> 0, quantity |-> 0, is_buy_side |-> FALSE,
            decision |-> DefaultDecision, splits |-> <<>>,
            data |-> NoData]

\* no router is built: the runs of the order book alone
NoRouter ==
    /\ exchanges = <<>>
    /\ consider_latency = FALSE
    /\ consider_fees = FALSE
    /\ lastRoute = NoRoute
    /\ deactivated = {}

\* route_order_split is not running
IdleSplit == [pc |-> "idle", price |-> 0, is_buy_side |-> FALSE,
              requested |-> 0, total_quantity |-> 0, splits |-> <<>>]

\* no market maker is built
NoMaker == "none"

\* nothing but the order book and the router's one-step calls is followed
AuxIdle ==
    /\ splitCall = IdleSplit
    /\ mm = NoMaker
    /\ lastTick = NoMaker

Init == InitBook /\ NoRouter /\ AuxIdle

SetBook(b) ==
    /\ buy_levels' = b.buy_levels
    /\ sell_levels' = b.sell_levels
    /\ buy_orders_at_level' = b.buy_orders_at_level
    /\ sell_orders_at_level' = b.sell_orders_at_level
    /\ orders' = b.orders
    /\ next_trade_id' = b.next_trade_id

\* the book and the caller's view after add_order returned r
Added(r) ==
    /\ SetBook(r.book)
    /\ lastTrades' = r.trades
    /\ emitted' = emitted + Len(r.trades)

\* the sum of the quantities of the trades a call returned
RECURSIVE TradedSum(_)
TradedSum(trades) ==
    IF trades = <<>> THEN 0
    ELSE Head(trades).quantity + TradedSum(Tail(trades))

\* one call of add_order
AddOrder(order_id, price, quantity, is_buy_side) ==
    /\ Added(add_order(Book, order_id, price, quantity, is_buy_side))
    /\ ledger' = [ledger EXCEPT !.submitted[is_buy_side] = @ + quantity,
                                !.traded = @ + TradedSum(lastTrades')]
    /\ lastOp' = [kind |-> "add", order_id |-> order_id, price |-> price,
                  quantity |-> quantity, is_buy_side |-> is_buy_side,
                  ret |-> FALSE]
    /\ UNCHANGED <<sorVars, auxVars>>

\* the book and the caller's view after cancel_order returned r
Cancelled(order_id, r) ==
    /\ SetBook(r.book)
    /\ lastOp' = [kind |-> "cancel", order_id |-> order_id, price |-> 0,
                  quantity |-> 0, is_buy_side |-> FALSE, ret |-> r.ret]

\* one call of cancel_order
CancelOrder(order_id) ==
    /\ Cancelled(order_id, cancel_order(Book, order_id))
    /\ lastTrades' = <<>>
    /\ ledger' = IF order_id \in DOMAIN orders
                 THEN [ledger EXCEPT
                         !.cancelled[orders[order_id].is_buy_side] =
                             @ + orders[order_id].quantity]
                 ELSE ledger
    /\ UNCHANGED emitted
    /\ UNCHANGED <<sorVars, auxVars>>

\* Spec: up to MaxCalls calls with any argument of the modelled ranges:
\* resident or free id, price 0 or a whole tick, quantity 0 or more
AnyAdd ==
    /\ calls < MaxCalls
    /\ \E id \in AnyIds, p \in Prices, q \in Quantities, s \in BOOLEAN :
          AddOrder(id, p, q, s)
    /\ calls' = calls + 1
    /\ UNCHANGED next_order_id

AnyCancel ==
    /\ calls < MaxCalls
    /\ \E id \in AnyIds : CancelOrder(id)
    /\ calls' = calls + 1
    /\ UNCHANGED next_order_id

Next == AnyAdd \/ AnyCancel

Spec == Init /\ [][Next]_vars

\* SpecValid: add only with its preconditions met: an id that was never
\* used in this book (the caller draws ids from a counter), quantity > 0,
\* price > 0 and a whole tick; cancel of any id drawn so far or of the next
ValidAdd ==
    /\ next_order_id <= MaxOrderId
    /\ \E p \in TickPrices, q \in Quantities \ {0}, s \in BOOLEAN :
          AddOrder(next_order_id, p, q, s)
    /\ next_order_id' = next_order_id + 1
    /\ UNCHANGED calls

Cancel ==
    /\ \E id \in 1..next_order_id : CancelOrder(id)
    /\ UNCHANGED <<next_order_id, calls>>

NextValid == ValidAdd \/ Cancel

SpecValid == Init /\ [][NextValid]_vars

\* SpecReal: valid calls whose prices are not whole multiples of 0.01, as
\* the random prices of the benchmarks: 0.295 and 0.296, in thousandths.
\* (0.295 * 100.0) as u64 and (0.296 * 100.0) as u64 are both 29.
RealPrices == {295, 296}

RealAdd ==
    /\ next_order_id <= MaxOrderId
    /\ \E p \in RealPrices, q \in Quantities \ {0}, s \in BOOLEAN :
          AddOrder(next_order_id, p, q, s)
    /\ next_order_id' = next_order_id + 1
    /\ UNCHANGED calls

NextReal == RealAdd \/ Cancel

SpecReal == Init /\ [][NextReal]_vars

\* SpecZeroQty: the valid calls and add with quantity 0, at any price of the
\* modelled range (0 included) and on either side
ZeroQtyAdd ==
    /\ next_order_id <= MaxOrderId
    /\ \E p \in Prices, s \in BOOLEAN : AddOrder(next_order_id, p, 0, s)
    /\ next_order_id' = next_order_id + 1
    /\ UNCHANGED calls

NextZeroQty == ValidAdd \/ ZeroQtyAdd \/ Cancel

SpecZeroQty == Init /\ [][NextZeroQty]_vars

\* SpecFreeId: valid adds whose id is any id of AnyIds that is not resident
\* (a new id, or the id of an order that was filled or cancelled), so that
\* an incoming id may be smaller or larger than the ids it meets; cancels
FreeIdAdd ==
    /\ next_order_id <= MaxOrderId
    /\ \E id \in AnyIds \ DOMAIN orders, p \in TickPrices,
          q \in Quantities \ {0}, s \in BOOLEAN : AddOrder(id, p, q, s)
    /\ next_order_id' = next_order_id + 1
    /\ UNCHANGED calls

AnyIdCancel ==
    /\ \E id \in AnyIds : CancelOrder(id)
    /\ UNCHANGED <<next_order_id, calls>>

NextFreeId == FreeIdAdd \/ AnyIdCancel

SpecFreeId == Init /\ [][NextFreeId]_vars

\* SpecMain: the calls of main.  The five orders that build the book come in
\* any order and any number of them may be left out (the scenarios of the
\* specification start from such books); then the crossing buy, then the
\* crossing sell.  calls counts the crossing orders made.
MainOrders ==
    <<[order_id |-> 1, price |-> 100500, quantity |-> 10, is_buy_side |-> TRUE],
      [order_id |-> 2, price |-> 100750, quantity |-> 5,  is_buy_side |-> TRUE],
      [order_id |-> 3, price |-> 100250, quantity |-> 15, is_buy_side |-> TRUE],
      [order_id |-> 4, price |-> 101000, quantity |-> 10, is_buy_side |-> FALSE],
      [order_id |-> 5, price |-> 101250, quantity |-> 15, is_buy_side |-> FALSE],
      [order_id |-> 6, price |-> 101100, quantity |-> 25, is_buy_side |-> TRUE],
      [order_id |-> 7, price |-> 100000, quantity |-> 30, is_buy_side |-> FALSE]>>

MainAdd(o) == AddOrder(o.order_id, o.price, o.quantity, o.is_buy_side)

BuildBook ==
    /\ calls = 0
    /\ \E i \in 1..5 : i \notin DOMAIN orders /\ MainAdd(MainOrders[i])
    /\ UNCHANGED <<next_order_id, calls>>

CrossingBuy ==
    /\ calls = 0
    /\ MainAdd(MainOrders[6])
    /\ calls' = 1
    /\ UNCHANGED next_order_id

CrossingSell ==
    /\ calls = 1
    /\ MainAdd(MainOrders[7])
    /\ calls' = 2
    /\ UNCHANGED next_order_id

NextMain == BuildBook \/ CrossingBuy \/ CrossingSell

SpecMain == Init /\ [][NextMain]_vars

\* SpecSOR: a router built with either setting of its two flags, to which
\* up to MaxExchanges exchanges are added and whose exchanges are switched
\* off and on, and which is asked to route, to split and to aggregate at any
\* moment.  An exchange's book is fixed once it is handed to add_exchange
\* (the router owns it and offers no mutable access).
MaxExchanges == 2

VenueIds == {"Binance", "Coinbase"}
RoutePrices == {280, 300}
RouteQuantities == {1, 3}

\* the add_order calls that fill an exchange's book before it is added:
\* bid 0.29 and ask 0.30; bid 0.28 and ask 0.31; ask 0.58 alone; bid 0.58
\* alone
TightBook == <<Order(1, 290, 1, TRUE), Order(2, 300, 2, FALSE)>>
WideBook  == <<Order(1, 280, 2, TRUE), Order(2, 310, 1, FALSE)>>
AskOnly   == <<Order(1, 580, 1, FALSE)>>
BidOnly   == <<Order(1, 580, 2, TRUE)>>

\* what is handed to add_exchange besides the id: the calls that made the
\* book, avg_latency (100 ms or 300 ms), is_available, and the fee schedule
\* (maker 0.1% with taker 0.1%, or with taker 0.2% as FeeSchedule::default)
VenueShapes ==
    {<<TightBook, 1, TRUE, FeeSchedule(1, 1)>>,
     <<TightBook, 3, TRUE, FeeSchedule(1, 1)>>,
     <<TightBook, 1, TRUE, FeeSchedule(1, 2)>>,
     <<TightBook, 1, FALSE, FeeSchedule(1, 1)>>,
     <<WideBook, 1, TRUE, FeeSchedule(1, 1)>>,
     <<AskOnly, 1, TRUE, FeeSchedule(1, 1)>>,
     <<AskOnly, 3, TRUE, FeeSchedule(1, 1)>>,
     <<BidOnly, 1, TRUE, FeeSchedule(1, 1)>>}

\* the exchange of a shape under an id
Venue(id, sh) ==
    [id |-> id, order_book |-> BookOf(sh[1], NewBook), latency |-> sh[2],
     is_available |-> sh[3]]

\* SmartOrderRouter::new
InitSOR ==
    /\ InitBook
    /\ exchanges = <<>>
    /\ consider_latency \in BOOLEAN
    /\ consider_fees \in BOOLEAN
    /\ lastRoute = NoRoute
    /\ deactivated = {}
    /\ AuxIdle

AddExchange ==
    /\ Len(exchanges) < MaxExchanges
    /\ \E id \in VenueIds, sh \in VenueShapes :
          /\ exchanges' = add_exchange(exchanges, Venue(id, sh), sh[4])
          /\ deactivated' = deactivated \ {id}
          /\ lastRoute' = [NoRoute EXCEPT !.kind = "add_exchange", !.id = id]
    /\ UNCHANGED <<bookVars, consider_latency, consider_fees, auxVars>>

SetExchangeActive ==
    /\ \E id \in VenueIds, active \in BOOLEAN :
          /\ exchanges' = set_exchange_active(exchanges, id, active)
          /\ deactivated' = IF active THEN deactivated \ {id}
                                      ELSE deactivated \cup {id}
          /\ lastRoute' = [NoRoute EXCEPT !.kind = "set_active", !.id = id,
                                          !.active = active]
    /\ UNCHANGED <<bookVars, consider_latency, consider_fees, auxVars>>

RouteOrder ==
    /\ \E price \in RoutePrices, quantity \in RouteQuantities,
          is_buy_side \in BOOLEAN :
          lastRoute' = [NoRoute EXCEPT
                          !.kind = "route", !.price = price,
                          !.quantity = quantity, !.is_buy_side = is_buy_side,
                          !.decision = route_order(exchanges, price, quantity,
                                                   is_buy_side, consider_latency,
                                                   consider_fees)]
    /\ UNCHANGED <<bookVars, exchanges, consider_latency, consider_fees,
                   deactivated, auxVars>>

RouteOrderSplit ==
    /\ \E price \in RoutePrices, quantity \in RouteQuantities,
          is_buy_side \in BOOLEAN :
          lastRoute' = [NoRoute EXCEPT
                          !.kind = "split", !.price = price,
                          !.quantity = quantity, !.is_buy_side = is_buy_side,
                          !.splits = route_order_split(exchanges, price,
                                        quantity, is_buy_side, consider_latency,
                                        consider_fees)]
    /\ UNCHANGED <<bookVars, exchanges, consider_latency, consider_fees,
                   deactivated, auxVars>>

GetAggregatedMarketData ==
    /\ lastRoute' = [NoRoute EXCEPT
                       !.kind = "data",
                       !.data = get_aggregated_market_data(exchanges)]
    /\ UNCHANGED <<bookVars, exchanges, consider_latency, consider_fees,
                   deactivated, auxVars>>

NextSOR ==
    \/ AddExchange
    \/ SetExchangeActive
    \/ RouteOrder
    \/ RouteOrderSplit
    \/ GetAggregatedMarketData

SpecSOR == InitSOR /\ [][NextSOR]_vars

\* SpecQueue: adds that meet the preconditions, one order more than in
\* SpecValid and no cancel: room for two orders resting at one level and two
\* orders that meet them one after the other
QueueAdd ==
    /\ next_order_id <= MaxOrderId + 1
    /\ \E p \in TickPrices, q \in Quantities \ {0}, s \in BOOLEAN :
          AddOrder(next_order_id, p, q, s)
    /\ next_order_id' = next_order_id + 1
    /\ UNCHANGED calls

NextQueue == QueueAdd

SpecQueue == Init /\ [][NextQueue]_vars

\* SpecSplit: route_order_split followed one loop iteration at a time, on
\* routers of up to MaxExchanges exchanges.  The router is borrowed by the
\* call: no exchange is added while the loop runs.
SplitShapes ==
    {<<TightBook, 1, TRUE, FeeSchedule(1, 1)>>,
     <<TightBook, 1, FALSE, FeeSchedule(1, 1)>>,
     <<WideBook, 1, TRUE, FeeSchedule(1, 1)>>}

SplitAddExchange ==
    /\ splitCall.pc # "loop"
    /\ Len(exchanges) < MaxExchanges
    /\ \E id \in VenueIds, sh \in SplitShapes :
          exchanges' = add_exchange(exchanges, Venue(id, sh), sh[4])
    /\ UNCHANGED <<bookVars, consider_latency, consider_fees, lastRoute,
                   deactivated, auxVars>>

\* the call is made: let mut splits = Vec::new()
SplitStart ==
    /\ splitCall.pc # "loop"
    /\ \E price \in RoutePrices, quantity \in RouteQuantities,
          is_buy_side \in BOOLEAN :
          splitCall' = [pc |-> "loop", price |-> price,
                        is_buy_side |-> is_buy_side, requested |-> quantity,
                        total_quantity |-> quantity, splits |-> <<>>]
    /\ UNCHANGED <<bookVars, sorVars, makerVars>>

\* (variant: the loop has no guard on the number of splits)
SplitsFullNever(exs, splits) == FALSE

\* "Prevent infinite loop"
SplitsFull(exs, splits) == Len(splits) >= Len(exs)

\* the locals after the loop body ran with the decision: the split is
\* pushed, the quantity taken off, and the loop left when the splits are full
SplitPushed(call, splits, fill_quantity) ==
    [call EXCEPT !.splits = splits,
                 !.total_quantity = @ - fill_quantity,
                 !.pc = IF SplitsFull(exchanges, splits) THEN "done" ELSE "loop"]

\* (variant: the whole of the quantity left goes to the venue decided on)
SplitIteratedWhole(call, decision) ==
    IF decision.exchange_id = Unknown THEN [call EXCEPT !.pc = "done"]
    ELSE SplitPushed(call,
                     Append(call.splits,
                            SplitOrder(decision, call.total_quantity)),
                     call.total_quantity)

\* the locals after one iteration that made the decision
SplitIterated(call, decision) ==
    IF decision.exchange_id = Unknown THEN [call EXCEPT !.pc = "done"]
    ELSE SplitPushed(call,
                     Append(call.splits,
                            SplitOrder(decision,
                                       Min(call.total_quantity,
                                           decision.available_quantity))),
                     Min(call.total_quantity, decision.available_quantity))

\* one evaluation of the while condition and, when it holds, of the body
SplitIterate ==
    /\ splitCall.pc = "loop"
    /\ splitCall' =
          IF splitCall.total_quantity = 0 THEN [splitCall EXCEPT !.pc = "done"]
          ELSE SplitIterated(splitCall,
                             route_order(exchanges, splitCall.price,
                                         splitCall.total_quantity,
                                         splitCall.is_buy_side,
                                         consider_latency, consider_fees))
    /\ UNCHANGED <<bookVars, sorVars, makerVars>>

NextSplit == SplitAddExchange \/ SplitStart \/ SplitIterate

\* the call runs to its end once it is made: every method is synchronous.
\* This is WF_splitCall(SplitIterate) with its ENABLED written out: the
\* iteration is enabled exactly while the loop runs, and every iteration
\* changes the locals.
SplitFair ==
    \/ []<>(splitCall.pc # "loop")
    \/ []<><<SplitIterate>>_splitCall

SpecSplit == InitSOR /\ [][NextSplit]_vars /\ SplitFair

\* SpecMM: a market maker on a router that is built before it (the market
\* maker borrows the router, so no exchange is added afterwards; what an
\* exchange reports through &self, its availability, may change).
\* The caller initializes the inventories once, then ticks, reports fills
\* and asks for the risk adjustment in any order.
MaxTicks == 2
MaxFills == 2
MaxAdjusts == 1

\* the parameters: spread 20 bp within [5 bp, 50 bp], at most 2.00 of base
\* and 1.00000 of quote, skew factor 1.0, no volatility adjustment, quotes
\* of 0.50 within [0.01, 1.00]; the target is 1.00 of base, or none
Parameters(target_base_inventory) ==
    [base_spread_bps |-> 20 * BpsUnit,
     min_spread_bps |-> 5 * BpsUnit,
     max_spread_bps |-> 50 * BpsUnit,
     max_base_inventory |-> 2 * BaseUnit,
     max_quote_inventory |-> 100000,
     target_base_inventory |-> target_base_inventory,
     inventory_skew_factor |-> 1,
     volatility_adjustment |-> 0,
     base_quote_size |-> 50 * SizeUnit,
     min_quote_size |-> 1,
     max_quote_size |-> 100]

MakerParameters == {Parameters(BaseUnit), Parameters(0)}

\* the routers: one exchange with both sides, or one with bids only and
\* one with asks only
MakerRouters ==
    {add_exchange(<<>>, Venue("Binance", <<TightBook, 1, TRUE>>),
                  FeeSchedule(1, 1)),
     add_exchange(add_exchange(<<>>, Venue("Binance", <<BidOnly, 1, TRUE>>),
                               FeeSchedule(1, 1)),
                  Venue("Coinbase", <<AskOnly, 1, TRUE>>), FeeSchedule(1, 1))}

\* the inventories handed to initialize, the prices and the quantities of
\* the fills reported
StartBase == {BaseUnit, 3 * (BaseUnit \div 2)}
StartQuote == {50000}
FillPrices == {250, 500}
FillQuantities == {BaseUnit}

\* no call made to the market maker yet; market is the market data the
\* last update_quotes read, spent the sum over the fills reported of fill
\* price times quantity, bought minus sold, and adjusts the number of calls
\* of adjust_parameters_for_risk
NoTick == [kind |-> "new", ret |-> NoQuotes, market |-> NoData,
           is_buy_side |-> FALSE, fill_price |-> 0, fill_quantity |-> 0,
           spent |-> 0, adjusts |-> 0]

\* SmartOrderRouter::new, add_exchange, MarketMaker::new
InitMM ==
    /\ InitBook
    /\ exchanges \in MakerRouters
    /\ consider_latency = TRUE
    /\ consider_fees = TRUE
    /\ lastRoute = NoRoute
    /\ deactivated = {}
    /\ splitCall = IdleSplit
    /\ mm \in {NewMaker(p) : p \in MakerParameters}
    /\ lastTick = NoTick

MMInitialize ==
    /\ lastTick.kind = "new"
    /\ \E base_inventory \in StartBase, quote_inventory \in StartQuote :
          mm' = initialize(mm, base_inventory, quote_inventory)
    /\ lastTick' = [NoTick EXCEPT !.kind = "initialize"]
    /\ UNCHANGED <<bookVars, sorVars, loopVars>>

\* the market maker and the value returned after update_quotes, which read
\* market_data, gave r
Ticked(r, market_data) ==
    /\ mm' = r.mm
    /\ lastTick' = [lastTick EXCEPT !.kind = "update_quotes", !.ret = r.ret,
                                    !.market = market_data]

MMUpdateQuotes ==
    /\ mm.quotes_placed < 2 * MaxTicks
    /\ Ticked(update_quotes(mm, exchanges, consider_latency, consider_fees),
              get_aggregated_market_data(exchanges))
    /\ UNCHANGED <<bookVars, sorVars, loopVars>>

MMOnQuoteFilled ==
    /\ mm.quotes_filled < MaxFills
    /\ \E is_buy_side \in BOOLEAN, fill_price \in FillPrices,
          fill_quantity \in FillQuantities :
          /\ mm' = on_quote_filled(mm, Quote(0, 0, is_buy_side, Unknown),
                                   fill_price, fill_quantity)
          /\ lastTick' = [lastTick EXCEPT
                            !.kind = "on_quote_filled",
                            !.is_buy_side = is_buy_side,
                            !.fill_price = fill_price,
                            !.fill_quantity = fill_quantity,
                            !.spent = IF is_buy_side
                                      THEN @ + fill_price * fill_quantity
                                      ELSE @ - fill_price * fill_quantity]
    /\ UNCHANGED <<bookVars, sorVars, loopVars>>

MMAdjustParametersForRisk ==
    /\ lastTick.adjusts < MaxAdjusts
    /\ mm' = adjust_parameters_for_risk(mm)
    /\ lastTick' = [lastTick EXCEPT !.kind = "adjust_parameters_for_risk",
                                    !.adjusts = @ + 1]
    /\ UNCHANGED <<bookVars, sorVars, loopVars>>

\* an exchange starts or stops reporting itself available
AvailabilityChanges ==
    /\ \E i \in 1..Len(exchanges), available \in BOOLEAN :
          /\ exchanges[i].exchange.is_available # available
          /\ exchanges' = [exchanges EXCEPT
                             ![i].exchange.is_available = available]
    /\ UNCHANGED <<bookVars, consider_latency, consider_fees, lastRoute,
                   deactivated, auxVars>>

NextMM ==
    \/ MMInitialize
    \/ MMUpdateQuotes
    \/ MMOnQuoteFilled
    \/ MMAdjustParametersForRisk
    \/ AvailabilityChanges

SpecMM == InitMM /\ [][NextMM]_vars

\* ------------------------------------------------------------ properties --
\* sum of the remaining quantities of the resident orders with ids in S
RECURSIVE RestingSum(_)
RestingSum(S) ==
    IF S = {} THEN 0
    ELSE LET id == CHOOSE x \in S : TRUE
         IN orders[id].quantity + RestingSum(S \ {id})

RestingAt(is_buy_side, key) ==
    {id \in DOMAIN orders : /\ orders[id].is_buy_side = is_buy_side
                            /\ PriceKey(orders[id].price) = key}

RestingOn(is_buy_side) ==
    {id \in DOMAIN orders : orders[id].is_buy_side = is_buy_side}

RECURSIVE LevelSum(_)
LevelSum(levels) ==
    IF DOMAIN levels = {} THEN 0
    ELSE LET k == CHOOSE x \in DOMAIN levels : TRUE
         IN levels[k] + LevelSum(RemoveKey(levels, k))

C2_NonCrossing ==
    (lastOp.kind = "add" /\ HasBid /\ HasAsk) => get_best_bid < get_best_ask

\* ---- helpers for the claims about one add_order call ----
\* a step is one call; lastOp' names the call, unprimed variables are the
\* book before it and primed ones the book after it
BookUnchanged ==
    UNCHANGED <<buy_levels, sell_levels, buy_orders_at_level,
                sell_orders_at_level, orders, next_trade_id>>

PassiveId(t, is_buy_side) ==
    IF is_buy_side THEN t.sell_order_id ELSE t.buy_order_id

RECURSIVE TradeSum(_)
TradeSum(trades) ==
    IF trades = <<>> THEN 0 ELSE Head(trades).quantity + TradeSum(Tail(trades))

\* quantity the trades fill of the passive order pid
FilledOf(trades, pid, is_buy_side) ==
    TradeSum(SelectSeq(trades, LAMBDA t : PassiveId(t, is_buy_side) = pid))

\* C3 (price priority): for any add that matches, the trades come at the
\* opposite levels best-first, starting at the best opposite level; every
\* trade's price is the price of the level in whose id sequence the passive
\* order stood; and afterwards no opposite level with a strictly better price
\* than some trade's price is left.
C3_PricePriority ==
    [][(lastOp'.kind = "add" /\ lastTrades' # <<>>) =>
        LET buy == lastOp'.is_buy_side
            tr == lastTrades'
            levels == IF buy THEN sell_levels ELSE buy_levels
            lists == IF buy THEN sell_orders_at_level ELSE buy_orders_at_level
            after == IF buy THEN sell_levels' ELSE buy_levels'
            better(a, b) == IF buy THEN a < b ELSE a > b
        IN /\ \A i \in 1..Len(tr) :
                \E k \in DOMAIN levels \cap DOMAIN lists :
                   /\ tr[i].price = KeyPrice(k)
                   /\ PassiveId(tr[i], buy) \in SeqToSet(lists[k])
           /\ \A k \in DOMAIN levels : ~ better(KeyPrice(k), tr[1].price)
           /\ \A i \in 1..(Len(tr) - 1) : ~ better(tr[i + 1].price, tr[i].price)
           /\ \A i \in 1..Len(tr) : \A k \in DOMAIN after :
                ~ better(KeyPrice(k), tr[i].price)
      ]_vars

\* a buy has just swept two ask levels, the lower one first
C3_Witness ==
    /\ lastOp.kind = "add" /\ lastOp.is_buy_side
    /\ Len(lastTrades) = 2
    /\ lastTrades[1].price < lastTrades[2].price
    /\ lastTrades[2].price <= lastOp.price

\* C4 (time priority): within one level an add fills the resting orders in
\* the order of the level's id sequence: an order receives a fill only if
\* every order standing before it in that sequence (and resident when the
\* add starts) is filled completely by this add.
C4_TimePriority ==
    [][(lastOp'.kind = "add" /\ lastTrades' # <<>>) =>
        LET buy == lastOp'.is_buy_side
            tr == lastTrades'
            lists == IF buy THEN sell_orders_at_level ELSE buy_orders_at_level
        IN \A k \in DOMAIN lists :
             \A i, j \in 1..Len(lists[k]) :
                (/\ i < j
                 /\ lists[k][i] # lists[k][j]
                 /\ lists[k][i] \in DOMAIN orders
                 /\ lists[k][j] \in DOMAIN orders
                 /\ \E n \in 1..Len(tr) : PassiveId(tr[n], buy) = lists[k][j])
                => FilledOf(tr, lists[k][i], buy) = orders[lists[k][i]].quantity
      ]_vars

\* an add has just filled the older order of a level completely and the
\* younger one in part
C4_Witness ==
    /\ lastOp.kind = "add"
    /\ Len(lastTrades) = 2
    /\ lastTrades[1].price = lastTrades[2].price
    /\ PassiveId(lastTrades[1], lastOp.is_buy_side) \notin DOMAIN orders
    /\ PassiveId(lastTrades[2], lastOp.is_buy_side) \in DOMAIN orders

\* C5 (P3): for every single add(id, px, qty, side), the quantities of the
\* returned trades sum to qty minus the quantity with which id rests
\* afterwards (0 if it does not rest).
C5_TradeValue ==
    lastOp.kind = "add" =>
        TradeSum(lastTrades) =
            lastOp.quantity - (IF lastOp.order_id \in DOMAIN orders
                               THEN orders[lastOp.order_id].quantity ELSE 0)

\* an add has just traded part of its quantity and rests with the remainder
C5_Witness ==
    /\ lastOp.kind = "add"
    /\ lastTrades # <<>>
    /\ lastOp.order_id \in DOMAIN orders
    /\ orders[lastOp.order_id].quantity < lastOp.quantity

\* C6 (P6): the k-th trade emitted by the book carries trade_id k; cancels
\* and adds without a match consume no id.
C6_TradeIdDense ==
    /\ next_trade_id = emitted + 1
    /\ \A i \in 1..Len(lastTrades) :
          lastTrades[i].trade_id = emitted - Len(lastTrades) + i

\* a later add has just traded after an earlier one did
C6_Witness ==
    /\ lastOp.kind = "add"
    /\ lastTrades # <<>>
    /\ lastTrades[1].trade_id >= 2

\* C7: add with an id that is resident is rejected: no trades, book unchanged.
C7_DuplicateRejected ==
    [][(lastOp'.kind = "add" /\ lastOp'.order_id \in DOMAIN orders) =>
          (lastTrades' = <<>> /\ BookUnchanged)]_vars

\* C8: add with price <= 0 is rejected: no trades, book unchanged.
C8_BadPriceRejected ==
    [][(lastOp'.kind = "add" /\ lastOp'.price <= 0) =>
          (lastTrades' = <<>> /\ BookUnchanged)]_vars

\* C9: add with quantity 0 returns no trades and leaves orders, levels, id
\* sequences and the next trade id as they were, whatever price and side.
C9_ZeroQtyNoOp ==
    [][(lastOp'.kind = "add" /\ lastOp'.quantity = 0) =>
          (lastTrades' = <<>> /\ BookUnchanged)]_vars

\* an add of quantity 0 has just been made at a price that crosses the
\* opposite side
C9_Witness ==
    /\ lastOp.kind = "add" /\ lastOp.quantity = 0
    /\ \/ lastOp.is_buy_side /\ HasAsk /\ lastOp.price >= get_best_ask
       \/ ~ lastOp.is_buy_side /\ HasBid /\ lastOp.price <= get_best_bid

\* C10: cancel(id) returns true exactly when id is resident; then the order
\* leaves the orders map and its level's id sequence, the level's aggregate
\* decreases by the order's remaining quantity, and the level leaves both maps
\* when no order is left at it.
C10_Cancel ==
    [][lastOp'.kind = "cancel" =>
        LET id == lastOp'.order_id IN
        /\ lastOp'.ret = (id \in DOMAIN orders)
        /\ id \in DOMAIN orders =>
             LET o == orders[id]
                 k == PriceKey(o.price)
                 levels == IF o.is_buy_side THEN buy_levels ELSE sell_levels
                 after == IF o.is_buy_side THEN buy_levels' ELSE sell_levels'
                 lists == IF o.is_buy_side THEN buy_orders_at_level'
                                           ELSE sell_orders_at_level'
                 left == {x \in DOMAIN orders' :
                            /\ orders'[x].is_buy_side = o.is_buy_side
                            /\ PriceKey(orders'[x].price) = k}
             IN /\ id \notin DOMAIN orders'
                /\ k \in DOMAIN lists => id \notin SeqToSet(lists[k])
                /\ k \in DOMAIN levels
                /\ (IF k \in DOMAIN after THEN after[k] ELSE 0)
                      = levels[k] - o.quantity
                /\ left = {} => (k \notin DOMAIN after /\ k \notin DOMAIN lists)
                /\ left # {} => (k \in DOMAIN after /\ k \in DOMAIN lists)
      ]_vars

\* C11 (P7): cancel of an id that is not resident (never added, cancelled or
\* completely filled) returns false and leaves the book unchanged; so a
\* second cancel of the id a cancel has just removed returns false and
\* changes nothing.
C11_CancelIdempotent ==
    [][lastOp'.kind = "cancel" =>
        /\ lastOp'.order_id \notin DOMAIN orders =>
              (~ lastOp'.ret /\ BookUnchanged)
        /\ (lastOp.kind = "cancel" /\ lastOp.ret
            /\ lastOp'.order_id = lastOp.order_id) =>
              (~ lastOp'.ret /\ BookUnchanged)
      ]_vars

\* a cancel has just returned false for an id that was added earlier, in a
\* book that has traded and still holds orders
C11_Witness ==
    /\ lastOp.kind = "cancel" /\ ~ lastOp.ret
    /\ lastOp.order_id < next_order_id
    /\ emitted >= 1
    /\ DOMAIN orders # {}

\* C12: after every operation, on each side the aggregate map and the
\* id-sequence map have the same prices, every level has aggregate > 0 and a
\* non-empty id sequence, and no resting order has quantity 0.
C12_LevelsWellFormed ==
    /\ DOMAIN buy_levels = DOMAIN buy_orders_at_level
    /\ DOMAIN sell_levels = DOMAIN sell_orders_at_level
    /\ \A k \in DOMAIN buy_levels : buy_levels[k] > 0
    /\ \A k \in DOMAIN sell_levels : sell_levels[k] > 0
    /\ \A k \in DOMAIN buy_orders_at_level : buy_orders_at_level[k] # <<>>
    /\ \A k \in DOMAIN sell_orders_at_level : sell_orders_at_level[k] # <<>>
    /\ \A id \in DOMAIN orders : orders[id].quantity > 0

\* the places (side, level key, position) at which id stands in the id
\* sequences of the map lists
PlacesIn(lists, side, id) ==
    UNION {{<<side, k, i>> : i \in {j \in 1..Len(lists[k]) : lists[k][j] = id}} :
             k \in DOMAIN lists}

PlacesOf(id) ==
    PlacesIn(buy_orders_at_level, TRUE, id)
        \cup PlacesIn(sell_orders_at_level, FALSE, id)

ListedIds ==
    UNION ({SeqToSet(buy_orders_at_level[k]) : k \in DOMAIN buy_orders_at_level}
           \cup {SeqToSet(sell_orders_at_level[k]) :
                   k \in DOMAIN sell_orders_at_level})

\* C13: after every operation the keys of the orders map are exactly the ids
\* in the level id sequences, and each id stands in exactly one sequence
\* exactly once, on the side and at the level of its order.
C13_OrdersAreListed ==
    /\ DOMAIN orders = ListedIds
    /\ \A id \in DOMAIN orders :
          /\ Cardinality(PlacesOf(id)) = 1
          /\ \A pl \in PlacesOf(id) :
                /\ pl[1] = orders[id].is_buy_side
                /\ pl[2] = PriceKey(orders[id].price)

\* the ids that stand in the id sequences of one side
ListedOn(is_buy_side) ==
    IF is_buy_side
    THEN UNION {SeqToSet(buy_orders_at_level[k]) : k \in DOMAIN buy_orders_at_level}
    ELSE UNION {SeqToSet(sell_orders_at_level[k]) :
                  k \in DOMAIN sell_orders_at_level}

\* C15: every trade of an add carries the incoming id in the field of the
\* incoming side and the id of a resting order of the opposite side in the
\* other field: (buy = incoming, sell = resting) for an incoming buy,
\* (buy = resting, sell = incoming) for an incoming sell, whichever of the
\* two ids is the larger.
C15_TradeRoles ==
    [][lastOp'.kind = "add" =>
        \A i \in 1..Len(lastTrades') :
           LET t == lastTrades'[i] IN
           IF lastOp'.is_buy_side
           THEN /\ t.buy_order_id = lastOp'.order_id
                /\ t.sell_order_id \in ListedOn(FALSE)
           ELSE /\ t.sell_order_id = lastOp'.order_id
                /\ t.buy_order_id \in ListedOn(TRUE)
      ]_vars

\* an incoming sell has just traded with a resting buy of a larger id
C15_Witness ==
    /\ lastOp.kind = "add" /\ ~ lastOp.is_buy_side
    /\ lastTrades # <<>>
    /\ lastTrades[1].sell_order_id = lastOp.order_id
    /\ lastTrades[1].buy_order_id > lastOp.order_id

\* the book of scenario S3: buy (1, 100.50, 10), sell (4, 101.00, 10) and
\* sell (5, 101.25, 15), no trade made yet
S3Book ==
    /\ DOMAIN orders = {1, 4, 5}
    /\ \A id \in {1, 4, 5} : orders[id] = MainOrders[id]
    /\ next_trade_id = 1

\* C14 as stated (scenario S3): on the book S3Book, add(6, 101.10, 25, buy)
\* returns the trades {1, 101.00, 10, buy 6, sell 4} and
\* {2, 101.25, 15, buy 6, sell 5}, no buy quantity remains, both sell levels
\* are emptied and there is no best ask.
C14_S3AsStated ==
    [][(S3Book /\ lastOp'.kind = "add" /\ lastOp'.order_id = 6) =>
        /\ lastTrades' = <<Trade(1, 101000, 10, 6, 4), Trade(2, 101250, 15, 6, 5)>>
        /\ 6 \notin DOMAIN orders'
        /\ sell_levels' = EmptyMap
        /\ sell_orders_at_level' = EmptyMap
      ]_vars

\* C14 amended: on the book S3Book, add(6, 101.10, 25, buy) returns the one
\* trade {1, 101.00, 10, buy 6, sell 4}; the remaining 15 of order 6 rest as
\* the best bid at 101.10; the sell level 101.00 is emptied and the level
\* 101.25 keeps order 5 with quantity 15, so best_ask = 101.25.
C14_S3CrossingBuy ==
    [][(S3Book /\ lastOp'.kind = "add" /\ lastOp'.order_id = 6) =>
        /\ lastTrades' = <<Trade(1, 101000, 10, 6, 4)>>
        /\ DOMAIN orders' = {1, 5, 6}
        /\ orders'[6] = Order(6, 101100, 15, TRUE)
        /\ orders'[5] = MainOrders[5]
        /\ buy_levels' = (10050 :> 10) @@ (10110 :> 15)
        /\ buy_orders_at_level' = (10050 :> <<1>>) @@ (10110 :> <<6>>)
        /\ sell_levels' = (10125 :> 15)
        /\ sell_orders_at_level' = (10125 :> <<5>>)
        /\ next_trade_id' = 2
      ]_vars

\* the crossing buy has just been added to the book of scenario S3
C14_Witness ==
    /\ lastOp.kind = "add" /\ lastOp.order_id = 6
    /\ lastTrades # <<>>
    /\ DOMAIN orders = {1, 5, 6}
    /\ HasAsk /\ get_best_ask = 101250
    /\ HasBid /\ get_best_bid = 101100

\* ---- helpers for the claims about the router ----
\* the top level of the side of book that an order of the given side meets:
\* its key, its price and its aggregate quantity, read from the level map
TopLevelKey(book, is_buy_side) ==
    IF is_buy_side
    THEN CHOOSE k \in DOMAIN book.sell_levels :
            \A j \in DOMAIN book.sell_levels : k <= j
    ELSE CHOOSE k \in DOMAIN book.buy_levels :
            \A j \in DOMAIN book.buy_levels : k >= j

TopLevelQty(book, is_buy_side) ==
    IF is_buy_side THEN book.sell_levels[TopLevelKey(book, TRUE)]
                   ELSE book.buy_levels[TopLevelKey(book, FALSE)]

HasTopLevel(book, is_buy_side) ==
    IF is_buy_side THEN DOMAIN book.sell_levels # {}
                   ELSE DOMAIN book.buy_levels # {}

\* the exchanges that are active, available and have a non-empty opposite
\* top level, by position
EligibleIdx(is_buy_side) ==
    {i \in 1..Len(exchanges) :
        /\ exchanges[i].is_active
        /\ exchanges[i].exchange.is_available
        /\ HasTopLevel(exchanges[i].exchange.order_book, is_buy_side)
        /\ TopLevelQty(exchanges[i].exchange.order_book, is_buy_side) > 0}

\* the score of the exchange at position i for an order: top price times
\* min(quantity, top quantity), plus (buy) or minus (sell) the fee if fees
\* are considered, times 1 + latency/10000 (buy) or 1 - latency/10000 (sell)
\* if latency is considered
ScoreOf(i, price, quantity, is_buy_side) ==
    LET book == exchanges[i].exchange.order_book
        top == KeyPrice(TopLevelKey(book, is_buy_side))
        fill == Min(quantity, TopLevelQty(book, is_buy_side))
        is_maker == IF is_buy_side THEN price < top ELSE price > top
        rate == IF ~ consider_fees THEN 0
                ELSE IF is_maker THEN exchanges[i].fees.maker_fee
                                 ELSE exchanges[i].fees.taker_fee
        lat == IF consider_latency THEN exchanges[i].exchange.latency ELSE 0
    IN top * fill * (IF is_buy_side THEN FeeUnit + rate ELSE FeeUnit - rate)
           * (IF is_buy_side THEN LatencyUnit + lat ELSE LatencyUnit - lat)

\* position i has the best score among the positions of E, and is the first
\* that has it
FirstBest(i, E, price, quantity, is_buy_side) ==
    /\ i \in E
    /\ \A j \in E :
          IF is_buy_side
          THEN ScoreOf(i, price, quantity, TRUE) <= ScoreOf(j, price, quantity, TRUE)
          ELSE ScoreOf(i, price, quantity, FALSE) >= ScoreOf(j, price, quantity, FALSE)
    /\ \A j \in E :
          j < i => ScoreOf(j, price, quantity, is_buy_side)
                      # ScoreOf(i, price, quantity, is_buy_side)

DistinctIds ==
    \A i, j \in 1..Len(exchanges) :
       i # j => exchanges[i].exchange.id # exchanges[j].exchange.id

\* quantity the splits allocate to the venue id
RECURSIVE AllocatedTo(_, _)
AllocatedTo(splits, id) ==
    IF splits = <<>> THEN 0
    ELSE (IF Head(splits).exchange_id = id THEN Head(splits).quantity ELSE 0)
         + AllocatedTo(Tail(splits), id)

\* C16: route_order_split returns at most one slice per venue, so the
\* quantity allocated to a venue is at most the venue's top-of-book quantity
\* (exchanges registered under different ids).
C16_OneSlicePerVenue ==
    (lastRoute.kind = "split" /\ DistinctIds) =>
        /\ \A i, j \in 1..Len(lastRoute.splits) :
              i # j => lastRoute.splits[i].exchange_id
                          # lastRoute.splits[j].exchange_id
        /\ \A i \in 1..Len(exchanges) :
              HasTopLevel(exchanges[i].exchange.order_book,
                          lastRoute.is_buy_side) =>
                 AllocatedTo(lastRoute.splits, exchanges[i].exchange.id)
                    <= TopLevelQty(exchanges[i].exchange.order_book,
                                   lastRoute.is_buy_side)

\* C17: route_order scores exactly the exchanges that are active, available
\* and have a non-empty opposite top level, and returns the one with the
\* least cost (buy) or the greatest proceeds (sell), the first added among
\* those with the best score.
C17_BestScoreFirstAdded ==
    (lastRoute.kind = "route" /\ EligibleIdx(lastRoute.is_buy_side) # {}) =>
        \E i \in EligibleIdx(lastRoute.is_buy_side) :
           /\ FirstBest(i, EligibleIdx(lastRoute.is_buy_side), lastRoute.price,
                        lastRoute.quantity, lastRoute.is_buy_side)
           /\ lastRoute.decision.exchange_id = exchanges[i].exchange.id

\* C18: route_order returns venue Unknown exactly when no exchange is
\* active, available and has a non-empty opposite top level; otherwise the
\* venue is one of those exchanges and available_quantity > 0.
C18_UnknownIffNoCandidate ==
    lastRoute.kind = "route" =>
        /\ (lastRoute.decision.exchange_id = Unknown)
              = (EligibleIdx(lastRoute.is_buy_side) = {})
        /\ EligibleIdx(lastRoute.is_buy_side) # {} =>
              /\ \E i \in EligibleIdx(lastRoute.is_buy_side) :
                    lastRoute.decision.exchange_id = exchanges[i].exchange.id
              /\ lastRoute.decision.available_quantity > 0

\* top quantities of the given side summed over the exchanges whose id is
\* not in the set off
RECURSIVE TopQtySum(_, _, _)
TopQtySum(exs, off, is_buy_side) ==
    IF exs = <<>> THEN 0
    ELSE (IF /\ Head(exs).exchange.id \notin off
             /\ HasTopLevel(Head(exs).exchange.order_book, is_buy_side)
          THEN TopLevelQty(Head(exs).exchange.order_book, is_buy_side) ELSE 0)
         + TopQtySum(Tail(exs), off, is_buy_side)

\* C19: an exchange is active when it is added; and while an id is set
\* inactive (set_active(v, false) was called, and neither set_active(v, true)
\* nor an add_exchange under v since), no result of route_order or
\* route_order_split names v, and the aggregated market data neither names v
\* nor counts quantity of an exchange registered under v.
C19_InactiveNotRouted ==
    /\ lastRoute.kind = "add_exchange" => exchanges[Len(exchanges)].is_active
    /\ lastRoute.kind = "route" =>
          lastRoute.decision.exchange_id \notin deactivated
    /\ lastRoute.kind = "split" =>
          \A i \in 1..Len(lastRoute.splits) :
             lastRoute.splits[i].exchange_id \notin deactivated
    /\ lastRoute.kind = "data" =>
          /\ lastRoute.data.best_bid_exchange \notin deactivated
          /\ lastRoute.data.best_ask_exchange \notin deactivated
          /\ lastRoute.data.total_bid_quantity
                <= TopQtySum(exchanges, deactivated, FALSE)
          /\ lastRoute.data.total_ask_quantity
                <= TopQtySum(exchanges, deactivated, TRUE)

\* C20: with consider_latency, of two eligible exchanges (of different ids)
\* with the same top price, top quantity and fee schedule and different
\* latencies, route_order returns the one with the lower latency, for buys
\* and for sells, whichever was added first.
C20_LowerLatencyWins ==
    (/\ lastRoute.kind = "route"
     /\ consider_latency
     /\ Len(exchanges) = 2
     /\ DistinctIds
     /\ EligibleIdx(lastRoute.is_buy_side) = {1, 2}
     /\ TopLevelKey(exchanges[1].exchange.order_book, lastRoute.is_buy_side)
           = TopLevelKey(exchanges[2].exchange.order_book, lastRoute.is_buy_side)
     /\ TopLevelQty(exchanges[1].exchange.order_book, lastRoute.is_buy_side)
           = TopLevelQty(exchanges[2].exchange.order_book, lastRoute.is_buy_side)
     /\ exchanges[1].fees = exchanges[2].fees
     /\ exchanges[1].exchange.latency # exchanges[2].exchange.latency) =>
        lastRoute.decision.exchange_id =
            (IF exchanges[1].exchange.latency < exchanges[2].exchange.latency
             THEN exchanges[1].exchange.id ELSE exchanges[2].exchange.id)

\* C21: route_order_split terminates, whatever the quantity and the books,
\* with at most as many splits as there are exchanges, and with none when
\* there is no exchange or when no exchange is active, available and has a
\* top level on the opposite side.
C21_SplitTerminates ==
    /\ [](Len(splitCall.splits) <= Len(exchanges))
    /\ []((/\ splitCall.pc = "done"
           /\ EligibleIdx(splitCall.is_buy_side) = {}) =>
              splitCall.splits = <<>>)
    /\ (splitCall.pc = "loop") ~> (splitCall.pc = "done")

\* a call on two or more exchanges that ended with as many splits as exchanges
\* and quantity left over
C21_Witness ==
    /\ splitCall.pc = "done"
    /\ Len(exchanges) >= 2
    /\ Len(splitCall.splits) = Len(exchanges)
    /\ splitCall.total_quantity > 0

\* ---- helpers for the claim about the aggregated market data ----
\* the exchanges that are active and available and have a level on the side
\* an order of the given side meets, by position
WithSide(is_buy_side) ==
    {i \in 1..Len(exchanges) :
        /\ exchanges[i].is_active
        /\ exchanges[i].exchange.is_available
        /\ HasTopLevel(exchanges[i].exchange.order_book, is_buy_side)}

\* the sum of the top level quantities of the exchanges at the positions S
RECURSIVE TopQtyOver(_, _)
TopQtyOver(S, is_buy_side) ==
    IF S = {} THEN 0
    ELSE TopQtyOver(S \ {CHOOSE i \in S : TRUE}, is_buy_side)
         + TopLevelQty(exchanges[CHOOSE i \in S : TRUE].exchange.order_book,
                       is_buy_side)

\* position i has the best top level of the positions S (the lowest ask, the
\* highest bid) and is the first that has it
FirstBestTop(i, S, is_buy_side) ==
    /\ i \in S
    /\ \A j \in S :
          IF is_buy_side
          THEN TopLevelKey(exchanges[i].exchange.order_book, TRUE)
                  <= TopLevelKey(exchanges[j].exchange.order_book, TRUE)
          ELSE TopLevelKey(exchanges[i].exchange.order_book, FALSE)
                  >= TopLevelKey(exchanges[j].exchange.order_book, FALSE)
    /\ \A j \in S :
          j < i => TopLevelKey(exchanges[j].exchange.order_book, is_buy_side)
                      # TopLevelKey(exchanges[i].exchange.order_book, is_buy_side)

\* C22: get_aggregated_market_data reduces the active and available
\* exchanges only: best_bid is the highest of their best bids and
\* best_bid_exchange the first exchange that has it, best_ask the lowest of
\* their best asks and best_ask_exchange the first that has it, each total
\* the sum of the quantities at the exchanges' own best levels, and a side
\* that no exchange has keeps the venue Unknown.
C22_AggregatedTops ==
    lastRoute.kind = "data" =>
        /\ WithSide(FALSE) = {} =>
              /\ lastRoute.data.best_bid_exchange = Unknown
              /\ lastRoute.data.total_bid_quantity = 0
        /\ WithSide(TRUE) = {} =>
              /\ lastRoute.data.best_ask_exchange = Unknown
              /\ lastRoute.data.total_ask_quantity = 0
        /\ WithSide(FALSE) # {} =>
              /\ \E i \in WithSide(FALSE) :
                    /\ FirstBestTop(i, WithSide(FALSE), FALSE)
                    /\ lastRoute.data.best_bid_exchange = exchanges[i].exchange.id
                    /\ lastRoute.data.best_bid
                          = KeyPrice(TopLevelKey(exchanges[i].exchange.order_book,
                                                 FALSE))
              /\ lastRoute.data.total_bid_quantity
                    = TopQtyOver(WithSide(FALSE), FALSE)
        /\ WithSide(TRUE) # {} =>
              /\ \E i \in WithSide(TRUE) :
                    /\ FirstBestTop(i, WithSide(TRUE), TRUE)
                    /\ lastRoute.data.best_ask_exchange = exchanges[i].exchange.id
                    /\ lastRoute.data.best_ask
                          = KeyPrice(TopLevelKey(exchanges[i].exchange.order_book,
                                                 TRUE))
              /\ lastRoute.data.total_ask_quantity
                    = TopQtyOver(WithSide(TRUE), TRUE)

\* C28: an incoming order never trades beyond its limit: every trade of a
\* buy has a price at or below the buy's price and every trade of a sell a
\* price at or above the sell's price; the opposite levels beyond the limit
\* are left as they were, also when the order has quantity left.
C28_LimitRespected ==
    [][lastOp'.kind = "add" =>
        LET buy == lastOp'.is_buy_side
            px == lastOp'.price
            tr == lastTrades'
            levels == IF buy THEN sell_levels ELSE buy_levels
            lists == IF buy THEN sell_orders_at_level ELSE buy_orders_at_level
            levelsAfter == IF buy THEN sell_levels' ELSE buy_levels'
            listsAfter == IF buy THEN sell_orders_at_level'
                                 ELSE buy_orders_at_level'
            beyond(k) == IF buy THEN KeyPrice(k) > px ELSE KeyPrice(k) < px
        IN /\ \A i \in 1..Len(tr) :
                IF buy THEN tr[i].price <= px ELSE tr[i].price >= px
           /\ \A k \in DOMAIN levels \cap DOMAIN lists :
                beyond(k) =>
                   /\ k \in DOMAIN levelsAfter \cap DOMAIN listsAfter
                   /\ levelsAfter[k] = levels[k]
                   /\ listsAfter[k] = lists[k]
      ]_vars

\* a buy has just traded at the lower ask level, rests with what is left,
\* and the ask level above its limit is still there
C28_Witness ==
    /\ lastOp.kind = "add" /\ lastOp.is_buy_side
    /\ lastTrades # <<>>
    /\ lastOp.order_id \in DOMAIN orders
    /\ orders[lastOp.order_id].quantity > 0
    /\ \E k \in DOMAIN sell_levels : KeyPrice(k) > lastOp.price

\* the price tick of a price: round(price * 100)
PriceTick(price) == (price + 5) \div 10

\* C29: when an add is not completely filled, the residual (quantity minus
\* the sum of its fills) rests on the order's own side at the order's own
\* price tick, its id appended at the end of that level's id sequence and
\* the level's aggregate grown by exactly the residual; when it is
\* completely filled, nothing is inserted.
C29_ResidualRests ==
    [][(lastOp'.kind = "add" /\ lastOp'.quantity > 0) =>
        LET buy == lastOp'.is_buy_side
            id == lastOp'.order_id
            tick == PriceTick(lastOp'.price)
            residual == lastOp'.quantity - TradeSum(lastTrades')
            levels == IF buy THEN buy_levels ELSE sell_levels
            lists == IF buy THEN buy_orders_at_level ELSE sell_orders_at_level
            levelsAfter == IF buy THEN buy_levels' ELSE sell_levels'
            listsAfter == IF buy THEN buy_orders_at_level'
                                 ELSE sell_orders_at_level'
        IN IF residual > 0
           THEN /\ id \in DOMAIN orders'
                /\ orders'[id] = Order(id, lastOp'.price, residual, buy)
                /\ tick \in DOMAIN levelsAfter \cap DOMAIN listsAfter
                /\ levelsAfter[tick]
                      = residual + (IF tick \in DOMAIN levels
                                    THEN levels[tick] ELSE 0)
                /\ listsAfter[tick]
                      = Append(IF tick \in DOMAIN lists THEN lists[tick]
                                                       ELSE <<>>, id)
                /\ \A k \in DOMAIN levelsAfter \ {tick} :
                      k \in DOMAIN levels /\ levelsAfter[k] = levels[k]
           ELSE /\ id \notin DOMAIN orders'
                /\ levelsAfter = levels
                /\ listsAfter = lists
      ]_vars

\* the ids of the sequence s that are resident after the step, in the order
\* of s
StillResident(s) == SelectSeq(s, LAMBDA id : id \in DOMAIN orders')

\* C30: a resting order that is filled in part keeps its place in the id
\* sequence of its level: an add takes out of the sequences of the opposite
\* side the orders it fills completely and nothing else, and moves nothing;
\* on its own side it changes a sequence only by appending its own id; and
\* an order of a level is filled only after every order ahead of it in the
\* sequence is filled completely.  So what is left of an order filled in
\* part is filled before any order that came to the level after it.
C30_PartialKeepsPlace ==
    [][lastOp'.kind = "add" =>
        LET buy == lastOp'.is_buy_side
            tr == lastTrades'
            lists == IF buy THEN sell_orders_at_level ELSE buy_orders_at_level
            listsAfter == IF buy THEN sell_orders_at_level'
                                 ELSE buy_orders_at_level'
            own == IF buy THEN buy_orders_at_level ELSE sell_orders_at_level
            ownAfter == IF buy THEN buy_orders_at_level'
                               ELSE sell_orders_at_level'
        IN /\ \A k \in DOMAIN lists :
                IF StillResident(lists[k]) = <<>>
                THEN k \notin DOMAIN listsAfter
                ELSE /\ k \in DOMAIN listsAfter
                     /\ listsAfter[k] = StillResident(lists[k])
           /\ \A k \in DOMAIN own :
                /\ k \in DOMAIN ownAfter
                /\ ownAfter[k] \in {own[k], Append(own[k], lastOp'.order_id)}
           /\ \A k \in DOMAIN lists : \A i, j \in 1..Len(lists[k]) :
                (i < j /\ FilledOf(tr, lists[k][j], buy) > 0)
                   => lists[k][i] \notin DOMAIN orders'
      ]_vars

\* order 1 was filled in part by order 3 while order 2 stood behind it at
\* the level; order 4 has just filled what was left of order 1, in the
\* trade that follows the first one, and then order 2
C30_Witness ==
    /\ lastOp.kind = "add" /\ lastOp.order_id = 4
    /\ Len(lastTrades) = 2
    /\ lastTrades[1].trade_id = 2
    /\ lastTrades[1].price = lastTrades[2].price
    /\ PassiveId(lastTrades[1], lastOp.is_buy_side) = 1
    /\ PassiveId(lastTrades[2], lastOp.is_buy_side) = 2

\* a step in which update_quotes was called (a call that returns nothing
\* twice in a row changes nothing and is no step)
Ticks ==
    /\ lastTick'.kind = "update_quotes"
    /\ lastTick.kind # "update_quotes" \/ mm' # mm \/ lastTick' # lastTick

\* no active and available exchange has a bid, or none has an ask
MarketLacksSide == WithSide(TRUE) = {} \/ WithSide(FALSE) = {}

QuotePrices(ret) == <<ret.buy_quote.price, ret.sell_quote.price>>

\* C23: update_quotes returns nothing exactly when the aggregated market
\* lacks a bid or an ask and no earlier tick stored a positive last_midpoint,
\* and then the market maker is unchanged; when a side is missing and an
\* earlier tick stored a positive last_midpoint, quotes are returned, their
\* prices are computed from that last_midpoint, and it is left unchanged.
C23_StaleMidpoint ==
    [][Ticks =>
         /\ (~ lastTick'.ret.some) <=> (MarketLacksSide /\ mm.last_midpoint <= 0)
         /\ (~ lastTick'.ret.some) => mm' = mm
         /\ (MarketLacksSide /\ mm.last_midpoint > 0) =>
               /\ lastTick'.ret.some
               /\ mm'.last_midpoint = mm.last_midpoint
               /\ QuotePrices(lastTick'.ret)
                     = calculate_quote_prices(mm, mm.last_midpoint,
                                              calculate_spread(mm))]_vars

\* update_quotes read a market without a bid or without an ask and returned
\* quotes all the same
C23_Witness ==
    /\ lastTick.kind = "update_quotes"
    /\ lastTick.market.best_bid <= 0 \/ lastTick.market.best_ask >= F64Max
    /\ lastTick.ret.some
    /\ mm.last_midpoint > 0

\* a step in which on_quote_filled was called
Fills ==
    /\ lastTick'.kind = "on_quote_filled"
    /\ mm'.quotes_filled = mm.quotes_filled + 1

\* C24: for every call on_quote_filled(quote, fill_price, fill_qty) the
\* change of base inventory times fill_price is minus the change of quote
\* inventory: a buy adds fill_qty / 100 to base and takes fill_price times
\* fill_qty / 100 from quote, a sell does the inverse; and over any sequence
\* of fills the quote inventory is the initial one minus the sum of the
\* signed base changes times their fill prices.
C24_InventoryConservation ==
    /\ [][Fills =>
            /\ (mm'.base_inventory - mm.base_inventory) * lastTick'.fill_price
                  = 0 - (mm'.quote_inventory - mm.quote_inventory)
            /\ mm'.base_inventory - mm.base_inventory
                  = IF lastTick'.is_buy_side THEN lastTick'.fill_quantity
                    ELSE 0 - lastTick'.fill_quantity
            /\ mm'.quote_inventory - mm.quote_inventory
                  = IF lastTick'.is_buy_side
                    THEN 0 - lastTick'.fill_price * lastTick'.fill_quantity
                    ELSE lastTick'.fill_price * lastTick'.fill_quantity]_vars
    /\ [](mm.quote_inventory = mm.initial_quote_inventory - lastTick.spent)

\* two fills or more, a purchase and a sale among them, that bring the base
\* inventory back to the initial one and leave the quote inventory changed
C24_Witness ==
    /\ lastTick.kind = "on_quote_filled"
    /\ mm.quotes_filled >= 2
    /\ mm.base_inventory = mm.initial_base_inventory
    /\ mm.quote_inventory # mm.initial_quote_inventory

\* the inventory limits: 0 <= base <= max_base and
\* -0.1 * max_quote <= quote <= max_quote
InventoryLimits(m) ==
    /\ 0 <= m.base_inventory
    /\ m.base_inventory <= m.params.max_base_inventory
    /\ 0 - m.params.max_quote_inventory <= 10 * m.quote_inventory
    /\ m.quote_inventory <= m.params.max_quote_inventory

\* C25: on_quote_filled never rejects a fill: a fill that takes an inventory
\* outside its limits is counted and applied in full to both inventories;
\* and is_within_risk_limits is false in every state in which an inventory is
\* outside its limits.
C25_FillsNeverRejected ==
    /\ [][(Fills /\ ~ InventoryLimits(mm')) =>
            /\ mm'.total_volume = mm.total_volume + lastTick'.fill_quantity
            /\ mm'.base_inventory
                  = IF lastTick'.is_buy_side
                    THEN mm.base_inventory + lastTick'.fill_quantity
                    ELSE mm.base_inventory - lastTick'.fill_quantity
            /\ mm'.quote_inventory
                  = IF lastTick'.is_buy_side
                    THEN mm.quote_inventory
                            - lastTick'.fill_price * lastTick'.fill_quantity
                    ELSE mm.quote_inventory
                            + lastTick'.fill_price * lastTick'.fill_quantity]_vars
    /\ [](~ InventoryLimits(mm) => ~ is_within_risk_limits(mm))

\* a purchase has just taken the base inventory from within the limits to
\* above max_base_inventory
C25_Witness ==
    /\ lastTick.kind = "on_quote_filled"
    /\ lastTick.is_buy_side
    /\ mm.base_inventory > mm.params.max_base_inventory
    /\ mm.base_inventory - lastTick.fill_quantity
          <= mm.params.max_base_inventory
    /\ ~ is_within_risk_limits(mm)

\* a step in which adjust_parameters_for_risk was called
Adjusts ==
    /\ lastTick'.kind = "adjust_parameters_for_risk"
    /\ lastTick'.adjusts = lastTick.adjusts + 1

\* C26: adjust_parameters_for_risk multiplies base_spread_bps by 1.5 and
\* base_quote_size by 0.5 exactly when is_within_risk_limits is false, once
\* per call; when it is true nothing changes; in both cases the inventories,
\* the counters, last_midpoint and the other parameters are unchanged.
C26_AdjustFrame ==
    [][Adjusts =>
         /\ IF is_within_risk_limits(mm)
            THEN mm'.params = mm.params
            ELSE /\ 2 * mm'.params.base_spread_bps
                       = 3 * mm.params.base_spread_bps
                 /\ 2 * mm'.params.base_quote_size = mm.params.base_quote_size
                 /\ mm'.params.base_spread_bps # mm.params.base_spread_bps
         /\ mm' = [mm EXCEPT
                     !.params.base_spread_bps = mm'.params.base_spread_bps,
                     !.params.base_quote_size = mm'.params.base_quote_size]]_vars

\* adjust_parameters_for_risk has just widened the spread of a market maker
\* outside its limits
C26_Witness ==
    /\ lastTick.kind = "adjust_parameters_for_risk"
    /\ mm.params.base_spread_bps = 30 * BpsUnit
    /\ mm.params.base_quote_size = 25 * SizeUnit
    /\ ~ is_within_risk_limits(mm)

\* mid * (1 - half) and mid * (1 + half) for the midpoint a tick used (the
\* one it stored, or the stored one it fell back on) and the spread of the
\* market maker, in the unit of quote prices
PlainBid(m, mid) == mid * (AdjUnit - calculate_spread(m) * SkewUnit)
PlainAsk(m, mid) == mid * (AdjUnit + calculate_spread(m) * SkewUnit)

\* the quotes of a tick are plain: exactly mid * (1 -/+ half)
PlainQuotes ==
    /\ lastTick'.ret.buy_quote.price = PlainBid(mm, mm'.last_midpoint)
    /\ lastTick'.ret.sell_quote.price = PlainAsk(mm, mm'.last_midpoint)

\* the quotes of a tick are skewed: bid < mid * (1 - half) and
\* ask > mid * (1 + half)
SkewedQuotes ==
    /\ lastTick'.ret.buy_quote.price < PlainBid(mm, mm'.last_midpoint)
    /\ lastTick'.ret.sell_quote.price > PlainAsk(mm, mm'.last_midpoint)

\* C27 as stated: when base inventory is above target_base (positive skew
\* factor, positive spread) the quotes returned by update_quotes satisfy
\* bid < mid * (1 - half) and ask > mid * (1 + half); when it equals
\* target_base the quotes are exactly mid * (1 -/+ half).
C27_SkewAboveTarget ==
    [][(Ticks /\ lastTick'.ret.some /\ mm.params.inventory_skew_factor > 0
              /\ calculate_spread(mm) > 0) =>
         /\ mm.base_inventory > mm.params.target_base_inventory =>
               SkewedQuotes
         /\ mm.base_inventory = mm.params.target_base_inventory =>
               PlainQuotes]_vars

\* C27, amended: when target_base is positive and base inventory is above
\* it (positive skew factor, positive spread) the quotes returned by
\* update_quotes satisfy bid < mid * (1 - half) and ask > mid * (1 + half);
\* when base inventory equals target_base the quotes are exactly
\* mid * (1 -/+ half).
C27_SkewAbovePositiveTarget ==
    [][(Ticks /\ lastTick'.ret.some /\ mm.params.inventory_skew_factor > 0
              /\ calculate_spread(mm) > 0) =>
         /\ (mm.params.target_base_inventory > 0
               /\ mm.base_inventory > mm.params.target_base_inventory) =>
               SkewedQuotes
         /\ mm.base_inventory = mm.params.target_base_inventory =>
               PlainQuotes]_vars

\* a tick of a market maker that holds more than its positive target has
\* returned quotes
C27_Witness ==
    /\ lastTick.kind = "update_quotes"
    /\ lastTick.ret.some
    /\ mm.params.target_base_inventory > 0
    /\ mm.base_inventory > mm.params.target_base_inventory
    /\ lastTick.ret.buy_quote.price < PlainBid(mm, mm.last_midpoint)
    /\ lastTick.ret.sell_quote.price > PlainAsk(mm, mm.last_midpoint)

\* the sum of the quantities of a list of splits
RECURSIVE SplitSum(_)
SplitSum(splits) ==
    IF splits = <<>> THEN 0
    ELSE splits[1].quantity + SplitSum(Tail(splits))

\* the split is min(residual, top quantity) of a usable exchange with its id
SplitOfVenue(split, residual) ==
    \E i \in EligibleIdx(splitCall.is_buy_side) :
       /\ exchanges[i].exchange.id = split.exchange_id
       /\ split.quantity
             = Min(residual, TopLevelQty(exchanges[i].exchange.order_book,
                                         splitCall.is_buy_side))

\* C31: each split of route_order_split has quantity min(residual,
\* available quantity of the venue decided on) > 0 and takes that much off
\* the residual; the split quantities never add up to more than the
\* quantity requested, and add up to it when the loop ends with residual 0.
C31_SplitQuantities ==
    /\ [][Len(splitCall'.splits) = Len(splitCall.splits) + 1 =>
            /\ SplitOfVenue(splitCall'.splits[Len(splitCall'.splits)],
                            splitCall.total_quantity)
            /\ splitCall'.splits[Len(splitCall'.splits)].quantity > 0
            /\ splitCall'.total_quantity
                  = splitCall.total_quantity
                       - splitCall'.splits[Len(splitCall'.splits)].quantity]_vars
    /\ [](SplitSum(splitCall.splits) <= splitCall.requested)
    /\ []((splitCall.pc = "done" /\ splitCall.total_quantity = 0)
             => SplitSum(splitCall.splits) = splitCall.requested)

\* a call has ended with nothing left after two splits or more
C31_Witness ==
    /\ splitCall.pc = "done"
    /\ splitCall.total_quantity = 0
    /\ Len(splitCall.splits) >= 2
    /\ SplitSum(splitCall.splits) = splitCall.requested

\* C32: the level under which an order is stored, matched, cancelled and
\* queried is price_tick = round(price * 100): every resting order stands in
\* the id sequence, and counts in the aggregate, of the level of its side
\* whose key is its price rounded to the nearest tick (a price within half a
\* tick below tick T is stored at T, not at T - 1).
C32_RoundsToNearest ==
    \A id \in DOMAIN orders :
       IF orders[id].is_buy_side
       THEN /\ PriceTick(orders[id].price) \in DOMAIN buy_orders_at_level
            /\ id \in SeqToSet(buy_orders_at_level[PriceTick(orders[id].price)])
            /\ PriceTick(orders[id].price) \in DOMAIN buy_levels
       ELSE /\ PriceTick(orders[id].price) \in DOMAIN sell_orders_at_level
            /\ id \in SeqToSet(sell_orders_at_level[PriceTick(orders[id].price)])
            /\ PriceTick(orders[id].price) \in DOMAIN sell_levels

\* ask - bid of the quotes of a tick is mid * spread * (1 + skew): the
\* spread the tick used lies between lo and hi (in the unit of spreads)
SpreadUsedWithin(ret, m, mid, lo, hi) ==
    LET width == ret.sell_quote.price - ret.buy_quote.price
        scale == 2 * mid * (SkewUnit + calculate_inventory_skew(m))
    IN  /\ scale > 0 => (lo * scale <= width /\ width <= hi * scale)
        /\ scale < 0 => (lo * scale >= width /\ width >= hi * scale)

\* C33: the spread used by update_quotes is always within
\* [min_spread_bps, max_spread_bps] / 10000 (given min <= max), whatever the
\* inventory and however often adjust_parameters_for_risk has multiplied
\* base_spread_bps by 1.5.
C33_SpreadClamped ==
    /\ [](/\ mm.params.min_spread_bps <= calculate_spread(mm)
          /\ calculate_spread(mm) <= mm.params.max_spread_bps)
    /\ [][(Ticks /\ lastTick'.ret.some) =>
             SpreadUsedWithin(lastTick'.ret, mm, mm'.last_midpoint,
                              mm.params.min_spread_bps,
                              mm.params.max_spread_bps)]_vars

\* a tick has returned quotes for a market maker whose spread before the
\* limits, after an adjustment for risk, is above max_spread_bps
C33_Witness ==
    /\ lastTick.kind = "update_quotes"
    /\ lastTick.ret.some
    /\ lastTick.adjusts >= 1
    /\ RawSpread(mm) > mm.params.max_spread_bps
    /\ SkewUnit + calculate_inventory_skew(mm) > 0

\* C34: non-crossing also holds for positive prices that are not whole
\* multiples of 0.01: after any add, if both sides are populated then
\* best_bid < best_ask, and no resting buy has a price >= the price of a
\* resting sell.
C34_NonCrossingRealPrices ==
    lastOp.kind = "add" =>
       /\ (HasBid /\ HasAsk) => get_best_bid < get_best_ask
       /\ \A b \in RestingOn(TRUE), a \in RestingOn(FALSE) :
             orders[b].price < orders[a].price

\* position i has the best top price of the positions E for an order of the
\* side: the lowest ask for a buy, the highest bid for a sell
BestTopPrice(i, E, is_buy_side) ==
    \A j \in E :
       IF is_buy_side
       THEN TopLevelKey(exchanges[i].exchange.order_book, TRUE)
               <= TopLevelKey(exchanges[j].exchange.order_book, TRUE)
       ELSE TopLevelKey(exchanges[i].exchange.order_book, FALSE)
               >= TopLevelKey(exchanges[j].exchange.order_book, FALSE)

\* C35: with consider_fees = false and consider_latency = false, route_order
\* returns for a buy a venue whose top ask is the lowest among the eligible
\* venues and for a sell a venue whose top bid is the highest, whatever the
\* quantities at the top levels and whatever the order quantity.
C35_BestPriceWithoutFees ==
    (/\ lastRoute.kind = "route"
     /\ ~ consider_fees
     /\ ~ consider_latency
     /\ EligibleIdx(lastRoute.is_buy_side) # {}) =>
        \E i \in EligibleIdx(lastRoute.is_buy_side) :
           /\ lastRoute.decision.exchange_id = exchanges[i].exchange.id
           /\ BestTopPrice(i, EligibleIdx(lastRoute.is_buy_side),
                           lastRoute.is_buy_side)

\* C36: quantity is conserved over the lifetime of a book: after any
\* sequence of valid adds and cancels on a fresh book, for each side the
\* quantity submitted by the adds of the side is the quantity resting on the
\* side plus the quantity removed by cancels on the side plus the quantity
\* of all trades emitted; and the quantity of a resting order never
\* increases.
C36_LifetimeConservation ==
    /\ [](\A s \in BOOLEAN :
             ledger.submitted[s]
                = RestingSum(RestingOn(s)) + ledger.cancelled[s] + ledger.traded)
    /\ [][\A id \in DOMAIN orders \cap DOMAIN orders' :
             orders'[id].quantity <= orders[id].quantity]_vars

\* a cancel has just removed the rest of a buy order that had traded in part
C36_Witness ==
    /\ lastOp.kind = "cancel" /\ lastOp.ret
    /\ ledger.traded >= 1
    /\ ledger.cancelled[TRUE] >= 1
    /\ ledger.submitted[TRUE] > ledger.cancelled[TRUE] + ledger.traded
    /\ ledger.submitted[FALSE] >= 1

\* a map without one key, and a map of id sequences without one id
Without(m, k) == [x \in DOMAIN m \ {k} |-> m[x]]

ListsWithout(lists, id) ==
    [k \in {x \in DOMAIN lists : SeqToSet(lists[x]) # {id}} |->
        SelectSeq(lists[k], LAMBDA x : x # id)]

\* the ids of a sequence that were in the book before the step, in order
OldIds(list) == SelectSeq(list, LAMBDA x : x \in DOMAIN orders)

\* the frame of a cancel of the resident order id, which rests on side buy
\* under the key: the other orders, levels and id sequences are as before
CancelFrame(id, buy, key) ==
    /\ orders' = Without(orders, id)
    /\ Without(IF buy THEN buy_levels' ELSE sell_levels', key)
          = Without(IF buy THEN buy_levels ELSE sell_levels, key)
    /\ (IF buy THEN buy_orders_at_level' ELSE sell_orders_at_level')
          = ListsWithout(IF buy THEN buy_orders_at_level
                                ELSE sell_orders_at_level, id)
    /\ (IF buy THEN sell_levels' ELSE buy_levels')
          = (IF buy THEN sell_levels ELSE buy_levels)
    /\ (IF buy THEN sell_orders_at_level' ELSE buy_orders_at_level')
          = (IF buy THEN sell_orders_at_level ELSE buy_orders_at_level)
    /\ lastTrades' = <<>>
    /\ next_trade_id' = next_trade_id
    /\ emitted' = emitted

\* the frame of an add on side buy at the price: the resting orders of its
\* own side and their order in the id sequences are as before, and so are
\* the opposite levels beyond the price
AddFrame(buy, price) ==
    /\ \A id \in RestingOn(buy) :
          id \in DOMAIN orders' /\ orders'[id] = orders[id]
    /\ \A k \in DOMAIN (IF buy THEN buy_orders_at_level
                               ELSE sell_orders_at_level) :
          /\ k \in DOMAIN (IF buy THEN buy_orders_at_level'
                                  ELSE sell_orders_at_level')
          /\ OldIds(IF buy THEN buy_orders_at_level'[k]
                           ELSE sell_orders_at_level'[k])
                = (IF buy THEN buy_orders_at_level[k]
                          ELSE sell_orders_at_level[k])
    /\ \A k \in DOMAIN (IF buy THEN sell_levels ELSE buy_levels) :
          (IF buy THEN KeyPrice(k) > price ELSE KeyPrice(k) < price) =>
             /\ k \in DOMAIN (IF buy THEN sell_levels' ELSE buy_levels')
             /\ (IF buy THEN sell_levels'[k] ELSE buy_levels'[k])
                   = (IF buy THEN sell_levels[k] ELSE buy_levels[k])
             /\ (IF buy THEN sell_orders_at_level'[k]
                        ELSE buy_orders_at_level'[k])
                   = (IF buy THEN sell_orders_at_level[k]
                             ELSE buy_orders_at_level[k])
             /\ \A id \in RestingAt(~ buy, k) :
                   id \in DOMAIN orders' /\ orders'[id] = orders[id]

\* C37: cancel(id) of a resident order changes nothing but that order and
\* its level: every other resting order keeps its quantity, price, side and
\* relative place in its queue, every other level keeps its aggregate, the
\* opposite side is untouched, no trade is produced and the next trade id is
\* unchanged.  An add never changes the quantity or the queue order of the
\* resting orders of its own side, nor the opposite levels beyond its limit
\* price.
C37_CancelAndAddFrame ==
    [][/\ (lastOp'.kind = "cancel" /\ lastOp'.ret) =>
             CancelFrame(lastOp'.order_id,
                         orders[lastOp'.order_id].is_buy_side,
                         PriceKey(orders[lastOp'.order_id].price))
       /\ lastOp'.kind = "add" =>
             AddFrame(lastOp'.is_buy_side, lastOp'.price)]_vars

\* a cancel has just removed order 1 from a book of three orders: the buy
\* order 2 is alone in its queue and a sell order rests
C37_Witness ==
    /\ lastOp.kind = "cancel" /\ lastOp.ret
    /\ lastOp.order_id = 1
    /\ \E k \in DOMAIN buy_orders_at_level : buy_orders_at_level[k] = <<2>>
    /\ PriceKey(orders[2].price) \in DOMAIN buy_levels
    /\ HasAsk
    /\ next_order_id = 4

\* C38: whenever update_quotes returns quotes, the target exchanges of the
\* buy quote and of the sell quote are venues other than Unknown, also on
\* ticks that take the midpoint from last_midpoint because a side of the
\* aggregated market has disappeared since the previous tick.
C38_TargetsKnown ==
    (lastTick.kind = "update_quotes" /\ lastTick.ret.some) =>
        /\ lastTick.ret.buy_quote.target_exchange # Unknown
        /\ lastTick.ret.sell_quote.target_exchange # Unknown


\* C39: whenever update_quotes returns quotes, the price of the buy quote
\* is below the price of the sell quote, for every base inventory >= 0
\* and parameters with min_spread_bps > 0, target_base_inventory > 0 and
\* inventory_skew_factor >= 0
C39_QuotesNeverLocked ==
    (/\ lastTick.kind = "update_quotes"
     /\ lastTick.ret.some
     /\ mm.base_inventory >= 0
     /\ mm.params.min_spread_bps > 0
     /\ mm.params.target_base_inventory > 0
     /\ mm.params.inventory_skew_factor >= 0) =>
        lastTick.ret.buy_quote.price < lastTick.ret.sell_quote.price


\* C40: with every order id drawn from a strictly increasing counter and
\* never reused, for every trade returned by add the incoming order is the
\* buy side if and only if buy_order_id > sell_order_id
C40_AggressorById ==
    [][lastOp'.kind = "add" =>
        \A i \in 1..Len(lastTrades') :
           lastOp'.is_buy_side
              <=> (lastTrades'[i].buy_order_id > lastTrades'[i].sell_order_id)
      ]_vars

\* an incoming sell has just traded with two resting buys
C40_Witness ==
    /\ lastOp.kind = "add" /\ ~ lastOp.is_buy_side
    /\ Len(lastTrades) = 2
    /\ \A i \in 1..2 : /\ lastTrades[i].sell_order_id = lastOp.order_id
                       /\ lastTrades[i].buy_order_id < lastOp.order_id

====
